---- MODULE Spec2Model ----
(***************************************************************************)
(* Model of the CUTM result portal (src/app.py): credit parsing, grade     *)
(* scale, SGPA/CGPA aggregation, bulk ingest, backlog / batch filter       *)
(* construction and basket reconciliation.                                 *)
(*                                                                         *)
(* Python strings are sequences of one-character strings, so that split,   *)
(* strip, upper, replace, slicing and the anchored regexes of the code are *)
(* computed character by character.                                        *)
(***************************************************************************)
EXTENDS Integers, Sequences, FiniteSets, TLC

VARIABLES store, cbcs, req, out

vars == <<store, cbcs, req, out>>

(***************************************************************************)
(* Bounds of the model.                                                    *)
(***************************************************************************)
MaxCreditLen == 4
MaxParts == 3
MaxComp == 11

(***************************************************************************)
(* Python values: None, a str, or a non-str object (a number).             *)
(***************************************************************************)
PyNone == [t |-> "none", s |-> <<>>]
PyStr(s) == [t |-> "str", s |-> s]
\* the number 3: truthy, not a str, str() renders it as "3"
PyNum == [t |-> "num", s |-> <<"3">>]

Digits == <<"0", "1", "2", "3", "4", "5", "6", "7", "8", "9">>

IsDigit(c) == \E i \in 1..10 : Digits[i] = c

DigitVal(c) == (CHOOSE i \in 1..10 : Digits[i] = c) - 1

IsSpace(c) == c = " "

\* all strings over alphabet A of length 0..n
RECURSIVE StringsUpTo(_, _)
StringsUpTo(A, n) ==
    IF n = 0 THEN {<<>>}
    ELSE LET S == StringsUpTo(A, n - 1)
         IN S \cup {Append(s, c) : s \in {x \in S : Len(x) = n - 1}, c \in A}

\* str.strip()
RECURSIVE LStrip(_)
LStrip(s) == IF s # <<>> /\ IsSpace(Head(s)) THEN LStrip(Tail(s)) ELSE s

RECURSIVE RStrip(_)
RStrip(s) ==
    IF s # <<>> /\ IsSpace(s[Len(s)]) THEN RStrip(SubSeq(s, 1, Len(s) - 1)) ELSE s

Strip(s) == RStrip(LStrip(s))

Contains(s, c) == \E i \in 1..Len(s) : s[i] = c

\* str.split(c) for a one-character separator
RECURSIVE Split(_, _)
Split(s, c) ==
    IF ~Contains(s, c) THEN <<s>>
    ELSE LET i == CHOOSE k \in 1..Len(s) : s[k] = c /\ \A j \in 1..(k - 1) : s[j] # c
         IN <<SubSeq(s, 1, i - 1)>> \o Split(SubSeq(s, i + 1, Len(s)), c)

\* a mutant of ReplaceDD: the legacy separator is not normalized
ReplaceDD_none(s) == s

\* str.replace('--', '+'): leftmost non-overlapping occurrences
RECURSIVE ReplaceDD(_)
ReplaceDD(s) ==
    IF Len(s) < 2 THEN s
    ELSE IF s[1] = "-" /\ s[2] = "-" THEN <<"+">> \o ReplaceDD(SubSeq(s, 3, Len(s)))
    ELSE <<s[1]>> \o ReplaceDD(Tail(s))

RECURSIVE DigitsValue(_)
DigitsValue(s) ==
    IF s = <<>> THEN 0 ELSE 10 * DigitsValue(SubSeq(s, 1, Len(s) - 1)) + DigitVal(s[Len(s)])

AllDigits(s) == s # <<>> /\ \A i \in 1..Len(s) : IsDigit(s[i])

\* float(s) on the characters of the model (digits, sign, blank, letters):
\* surrounding blanks are ignored, one optional sign, then digits; anything
\* else is a ValueError.  ok = FALSE stands for the raised exception.
Float(s) ==
    LET t == Strip(s)
        signed == t # <<>> /\ t[1] \in {"+", "-"}
        body == IF signed THEN Tail(t) ELSE t
    IN IF AllDigits(body)
       THEN [ok |-> TRUE, v |-> IF signed /\ t[1] = "-" THEN 0 - DigitsValue(body) ELSE DigitsValue(body)]
       ELSE [ok |-> FALSE, v |-> 0]

\* sum(float(p.strip()) for p in parts if p.strip()): ok = FALSE when a float() raises
RECURSIVE SumParts(_)
SumParts(parts) ==
    IF parts = <<>> THEN [ok |-> TRUE, v |-> 0]
    ELSE LET p == Strip(Head(parts))
             rest == SumParts(Tail(parts))
         IN IF p = <<>> THEN rest
            ELSE LET f == Float(p)
                 IN IF f.ok /\ rest.ok THEN [ok |-> TRUE, v |-> f.v + rest.v]
                    ELSE [ok |-> FALSE, v |-> 0]

\* the body of the try block shared by both parsers, on an already
\* normalized string
CreditsTryBody(s) ==
    IF Contains(s, "+") THEN SumParts(Split(s, "+")) ELSE Float(s)

\* try: ... except Exception: return 0.0
ExceptZero(r) == IF r.ok THEN [raised |-> FALSE, v |-> r.v] ELSE [raised |-> FALSE, v |-> 0]

parse_credits_normalized(credit_str) ==
    IF credit_str.t # "str" \/ credit_str.s = <<>> THEN [raised |-> FALSE, v |-> 0]
    ELSE ExceptZero(CreditsTryBody(ReplaceDD(credit_str.s)))

parse_credits(credit_str) ==
    IF credit_str.t # "str" \/ credit_str.s = <<>> THEN [raised |-> FALSE, v |-> 0]
    ELSE ExceptZero(CreditsTryBody(credit_str.s))

(***************************************************************************)
(* SpecParse: the two credit parsers applied to bounded inputs.            *)
(***************************************************************************)
CreditChars == {"0", "1", "2", "+", "-", " ", "x"}

RECURSIVE Dec(_)
Dec(n) == IF n < 10 THEN <<Digits[n + 1]>> ELSE Append(Dec(n \div 10), Digits[(n % 10) + 1])

RECURSIVE Join(_, _)
Join(parts, sep) ==
    IF Len(parts) = 1 THEN Dec(parts[1])
    ELSE Dec(parts[1]) \o sep \o Join(Tail(parts), sep)

RECURSIVE SeqSum(_)
SeqSum(q) == IF q = <<>> THEN 0 ELSE Head(q) + SeqSum(Tail(q))

CompLists == UNION {[1..n -> 0..MaxComp] : n \in 1..MaxParts}

NoOut == [op |-> "none"]

ParseInputs ==
    {[op |-> "parse", v |-> PyStr(s), comps |-> <<>>, sep |-> <<>>] : s \in StringsUpTo(CreditChars, MaxCreditLen)}
    \cup {[op |-> "parse", v |-> x, comps |-> <<>>, sep |-> <<>>] : x \in {PyNone, PyNum}}
    \cup {[op |-> "parse", v |-> PyStr(Join(c, sp)), comps |-> c, sep |-> sp] :
            c \in CompLists, sp \in {<<"+">>, <<"-", "-">>}}

ParseInit ==
    /\ store = <<>>
    /\ cbcs = <<>>
    /\ req \in ParseInputs
    /\ out = NoOut

ParseCredits ==
    /\ req.op = "parse"
    /\ out = NoOut
    /\ out' = [op |-> "parse",
               norm |-> parse_credits_normalized(req.v),
               plain |-> parse_credits(req.v)]
    /\ UNCHANGED <<store, cbcs, req>>

ParseNext == ParseCredits

SpecParse == ParseInit /\ [][ParseNext]_vars

\* C5: both parsers return a value without raising and the value is never
\* negative, for every input.
C5_TotalNonNegative ==
    out.op = "parse" =>
        /\ ~out.norm.raised /\ ~out.plain.raised
        /\ out.norm.v >= 0 /\ out.plain.v >= 0

\* C6: joined by '+', both parsers return the sum of the components; joined
\* by '--', the normalizing parser returns the sum and the plain parser
\* returns 0 when there are two or more components.
C6_JoinedSum ==
    (out.op = "parse" /\ req.comps # <<>>) =>
        /\ req.sep = <<"+">> =>
              /\ out.norm.v = SeqSum(req.comps)
              /\ out.plain.v = SeqSum(req.comps)
        /\ req.sep = <<"-", "-">> =>
              /\ out.norm.v = SeqSum(req.comps)
              /\ Len(req.comps) >= 2 => out.plain.v = 0

C6_Witness ==
    /\ out.op = "parse"
    /\ req.comps = <<2, 0, 1>>
    /\ req.sep = <<"-", "-">>
    /\ out.norm.v = 3
    /\ out.plain.v = 0

(***************************************************************************)
(* Grade scale and SGPA / CGPA aggregation.                                *)
(***************************************************************************)
GradeLetters == {"O", "E", "A", "B", "C", "D", "S", "M", "F", "I", "R"}

GRADE_MAP ==
    [g \in GradeLetters |->
        CASE g = "O" -> 10 [] g = "E" -> 9 [] g = "A" -> 8 [] g = "B" -> 7
          [] g = "C" -> 6 [] g = "D" -> 5 [] OTHER -> 0]

\* GRADE_MAP.get(grade, 0) for a str
convert_grade_to_integer(g) ==
    IF Len(g) = 1 /\ g[1] \in GradeLetters THEN GRADE_MAP[g[1]] ELSE 0

\* Python's `g in t` for two strs: g is a contiguous substring of t
IsSubstring(g, t) ==
    \E i \in 0..(Len(t) - Len(g)) : SubSeq(t, i + 1, i + Len(g)) = g

LetterTest == <<"O", "E", "A", "B", "C", "D", "S", "M", "F">>

\* convert_grade_to_integer(g) if isinstance(g, str) and g in "OEABCDSMF"
\* else float(g); ok = FALSE when float() raises (ValueError / TypeError)
GradePoints(g) ==
    IF g.t = "str" /\ IsSubstring(g.s, LetterTest)
    THEN [ok |-> TRUE, v |-> convert_grade_to_integer(g.s)]
    ELSE IF g.t = "none" THEN [ok |-> FALSE, v |-> 0]
    ELSE Float(g.s)

\* row.get("Credits") or "", then str()
OrEmpty(x) == IF x.t = "none" THEN <<>> ELSE x.s

\* [p for p in s.split('+') if p.strip() != ""]
NonBlankParts(s) == SelectSeq(Split(s, "+"), LAMBDA p : Strip(p) # <<>>)

\* [float(part) for part in parts], summed
RECURSIVE FloatSum(_)
FloatSum(parts) ==
    IF parts = <<>> THEN [ok |-> TRUE, v |-> 0]
    ELSE LET f == Float(Head(parts))
             rest == FloatSum(Tail(parts))
         IN IF f.ok /\ rest.ok THEN [ok |-> TRUE, v |-> f.v + rest.v]
            ELSE [ok |-> FALSE, v |-> 0]

AvgRaised == [raised |-> TRUE, total_credits |-> 0, total_weighted |-> 0, avg |-> <<0, 1>>]

\* the loop over the rows; an exception ends it
RECURSIVE AvgLoop(_, _, _)
AvgLoop(rows, total_credits, total_weighted) ==
    IF rows = <<>>
    THEN [raised |-> FALSE, total_credits |-> total_credits, total_weighted |-> total_weighted,
          avg |-> IF total_credits # 0 THEN <<total_weighted, total_credits>> ELSE <<0, 1>>]
    ELSE LET row == Head(rows)
             parts == NonBlankParts(OrEmpty(row.Credits))
         IN IF parts = <<>> THEN AvgLoop(Tail(rows), total_credits, total_weighted)
            ELSE LET csum == FloatSum(parts)
                     grade == GradePoints(row.Grade)
                 IN IF ~csum.ok \/ ~grade.ok THEN AvgRaised
                    ELSE AvgLoop(Tail(rows), total_credits + csum.v,
                                 total_weighted + grade.v * csum.v)

\* returns (sgpa, total_credits); avg is the pair <<numerator, denominator>>
calculate_sgpa(result) == AvgLoop(result, 0, 0)

(***************************************************************************)
(* SpecAvg: calculate_sgpa applied to bounded row sets.                    *)
(***************************************************************************)
MaxAvgRows == 2

Chars(str) ==
    CASE str = "" -> <<>>
      [] str = "3" -> <<"3">>
      [] str = "0" -> <<"0">>
      [] str = "8" -> <<"8">>
      [] str = "x" -> <<"x">>
      [] str = "2+0+1" -> <<"2", "+", "0", "+", "1">>
      [] str = "2--1" -> <<"2", "-", "-", "1">>

AvgCredits == {PyNone} \cup {PyStr(Chars(c)) : c \in {"", "3", "0", "x", "2+0+1", "2--1"}}

AvgGrades == {PyNone, PyStr(<<>>), PyStr(<<"8">>)} \cup {PyStr(<<g>>) : g \in GradeLetters}

AvgRowSets ==
    UNION {[1..n -> [Credits : AvgCredits, Grade : AvgGrades]] : n \in 0..MaxAvgRows}

AvgInit ==
    /\ store = <<>>
    /\ cbcs = <<>>
    /\ req \in {[op |-> "avg", rows |-> r] : r \in AvgRowSets}
    /\ out = NoOut

ComputeAverage ==
    /\ req.op = "avg"
    /\ out = NoOut
    /\ out' = [op |-> "avg", r |-> calculate_sgpa(req.rows)]
    /\ UNCHANGED <<store, cbcs, req>>

AvgNext == ComputeAverage

SpecAvg == AvgInit /\ [][AvgNext]_vars

\* the total credits of a row set under the credit parser's contract: a
\* malformed, missing or empty credit string counts 0
RECURSIVE ParsedTotal(_)
ParsedTotal(rows) ==
    IF rows = <<>> THEN 0
    ELSE parse_credits(PyStr(OrEmpty(Head(rows).Credits))).v + ParsedTotal(Tail(rows))

\* C3: when the accumulated total credits is 0 (empty row set, missing,
\* empty or malformed credits, credits summing to 0) the average is 0 and the
\* computation does not end in an error.
C3_ZeroTotalGivesZero ==
    (out.op = "avg" /\ ParsedTotal(req.rows) = 0) =>
        (~out.r.raised /\ out.r.avg = <<0, 1>>)

WellFormedRow(row) ==
    /\ row.Credits.t = "str"
    /\ NonBlankParts(row.Credits.s) # <<>>
    /\ FloatSum(NonBlankParts(row.Credits.s)).ok
    /\ row.Grade.t = "str"
    /\ Len(row.Grade.s) = 1
    /\ row.Grade.s[1] \in GradeLetters

RECURSIVE ScaleTotals(_)
ScaleTotals(rows) ==
    IF rows = <<>> THEN <<0, 0>>
    ELSE LET c == FloatSum(NonBlankParts(Head(rows).Credits.s)).v
             p == GRADE_MAP[Head(rows).Grade.s[1]]
             rest == ScaleTotals(Tail(rows))
         IN <<c + rest[1], p * c + rest[2]>>

\* C4: rows with well-formed credits and a grade among the 11 letters add
\* their credits to the total and GradeScale points * credits to the weighted
\* sum, and the computation fails for none of the 11 letters.
C4_ElevenLetters ==
    (out.op = "avg" /\ \A i \in 1..Len(req.rows) : WellFormedRow(req.rows[i])) =>
        /\ ~out.r.raised
        /\ out.r.total_credits = ScaleTotals(req.rows)[1]
        /\ out.r.total_weighted = ScaleTotals(req.rows)[2]

(***************************************************************************)
(* The grade store (collection CUTM1) and bulk ingest, update_data.        *)
(* The store is the list of its documents in insertion order; find_one and *)
(* update_one act on the first document that matches.                      *)
(***************************************************************************)
MaxRows == 2

LowerCase == <<"a", "b", "c", "d", "e", "f", "g", "h", "i", "j", "k", "l", "m",
               "n", "o", "p", "q", "r", "s", "t", "u", "v", "w", "x", "y", "z">>

UpperCase == <<"A", "B", "C", "D", "E", "F", "G", "H", "I", "J", "K", "L", "M",
               "N", "O", "P", "Q", "R", "S", "T", "U", "V", "W", "X", "Y", "Z">>

UpperChar(c) ==
    IF \E i \in 1..26 : LowerCase[i] = c
    THEN UpperCase[CHOOSE i \in 1..26 : LowerCase[i] = c] ELSE c

LowerChar(c) ==
    IF \E i \in 1..26 : UpperCase[i] = c
    THEN LowerCase[CHOOSE i \in 1..26 : UpperCase[i] = c] ELSE c

\* str.upper(), str.lower()
Upper(s) == [i \in 1..Len(s) |-> UpperChar(s[i])]

Lower(s) == [i \in 1..Len(s) |-> LowerChar(s[i])]

\* str.isdigit()
IsDigitStr(s) == AllDigits(s)

\* a mutant of IsBacklogMarker: every stored grade may be overwritten
IsBacklogMarker_any(g) == TRUE

\* existing_record.get("Grade") in {'F', 'S', 'M', 'I', 'R', ''}
IsBacklogMarker(g) == g \in {<<"F">>, <<"S">>, <<"M">>, <<"I">>, <<"R">>, <<>>}

\* a mutant of find_one: the lookup sees only the first document
find_one_head(st, reg_no, subject_code) ==
    IF st # <<>> /\ st[1].Reg_No = reg_no /\ st[1].Subject_Code = subject_code THEN 1 ELSE 0

\* a mutant of find_one: the lookup finds nothing
find_one_miss(st, reg_no, subject_code) == 0

\* index of the first document with this (Reg_No, Subject_Code), 0 if none
find_one(st, reg_no, subject_code) ==
    IF \E i \in 1..Len(st) : st[i].Reg_No = reg_no /\ st[i].Subject_Code = subject_code
    THEN CHOOSE i \in 1..Len(st) :
            /\ st[i].Reg_No = reg_no /\ st[i].Subject_Code = subject_code
            /\ \A j \in 1..(i - 1) : ~(st[j].Reg_No = reg_no /\ st[j].Subject_Code = subject_code)
    ELSE 0

\* the normalized fields of one uploaded row (lines 366-377)
RowFields(row) ==
    LET sem == Strip(OrEmpty(row.Sem))
    IN [Reg_No |-> Upper(Strip(OrEmpty(row.Reg_No))),
        Subject_Code |-> Upper(Strip(OrEmpty(row.Subject_Code))),
        Grade |-> Upper(Strip(OrEmpty(row.Grade))),
        Name |-> Strip(OrEmpty(row.Name)),
        Sem |-> IF IsDigitStr(sem) THEN <<"S", "e", "m", " ">> \o sem ELSE sem,
        Subject_Name |-> Strip(OrEmpty(row.Subject_Name)),
        Subject_Type |-> Strip(OrEmpty(row.Subject_Type)),
        Credits |-> Strip(OrEmpty(row.Credits))]

\* a mutant of IngestRow: a row with an empty key is not skipped
IngestRow_noskip(acc, row) ==
    LET f == RowFields(row)
        i == find_one(acc.st, f.Reg_No, f.Subject_Code)
    IN IF i # 0
       THEN IF IsBacklogMarker(acc.st[i].Grade)
            THEN [acc EXCEPT !.st[i].Grade = f.Grade, !.updated_count = @ + 1]
            ELSE acc
       ELSE [acc EXCEPT !.st = Append(@, f), !.inserted_count = @ + 1]

\* the body of the loop over df.iterrows() for one row
IngestRow(acc, row) ==
    LET f == RowFields(row)
        i == find_one(acc.st, f.Reg_No, f.Subject_Code)
    IN IF f.Reg_No = <<>> \/ f.Subject_Code = <<>> THEN acc
       ELSE IF i # 0
       THEN IF IsBacklogMarker(acc.st[i].Grade)
            THEN [acc EXCEPT !.st[i].Grade = f.Grade, !.updated_count = @ + 1]
            ELSE acc
       ELSE [acc EXCEPT !.st = Append(@, f), !.inserted_count = @ + 1]

RECURSIVE IngestLoop(_, _)
IngestLoop(acc, rows) ==
    IF rows = <<>> THEN acc ELSE IngestLoop(IngestRow(acc, Head(rows)), Tail(rows))

S(str) ==
    CASE str = "" -> <<>>
      [] str = " " -> <<" ">>
      [] str = "A" -> <<"A">>
      [] str = "F" -> <<"F">>
      [] str = "f " -> <<"f", " ">>
      [] str = "3" -> <<"3">>
      [] str = "Sem 3" -> <<"S", "e", "m", " ", "3">>
      [] str = "Sem 4" -> <<"S", "e", "m", " ", "4">>
      [] str = "Asha" -> <<"A", "s", "h", "a">>
      [] str = "Theory" -> <<"T", "h", "e", "o", "r", "y">>
      [] str = "Maths" -> <<"M", "a", "t", "h", "s">>
      [] str = "2+0+1" -> <<"2", "+", "0", "+", "1">>
      [] str = "CS1" -> <<"C", "S", "1">>
      [] str = "cs1 " -> <<"c", "s", "1", " ">>
      [] str = "MA2" -> <<"M", "A", "2">>
      [] str = "2100000201" -> <<"2", "1", "0", "0", "0", "0", "0", "2", "0", "1">>
      [] str = "2200000101" -> <<"2", "2", "0", "0", "0", "0", "0", "1", "0", "1">>
      [] str = " 2200000101 " -> <<" ", "2", "2", "0", "0", "0", "0", "0", "1", "0", "1", " ">>
      [] str = "21000002" -> <<"2", "1", "0", "0", "0", "0", "0", "2">>
      [] str = "2100000901" -> <<"2", "1", "0", "0", "0", "0", "0", "9", "0", "1">>

RawRegs == {S("2100000201"), S(" 2200000101 "), S(" ")}

RawCodes == {S("cs1 "), S(" ")}

RawGrades == {S("A"), S("f "), S(" ")}

UploadRows ==
    {[Reg_No |-> PyStr(r), Subject_Code |-> PyStr(c), Grade |-> PyStr(g),
      Name |-> PyStr(S("Asha")), Sem |-> PyStr(S("3")), Subject_Name |-> PyStr(S("Maths")),
      Subject_Type |-> PyStr(S("Theory")), Credits |-> PyStr(S("2+0+1"))] :
        r \in RawRegs, c \in RawCodes, g \in RawGrades}

Uploads == UNION {[1..n -> UploadRows] : n \in 1..MaxRows}

Init ==
    /\ store = <<>>
    /\ cbcs = <<>>
    /\ req = NoOut
    /\ out = NoOut

\* a client posts one file of rows to /update_data
RequestUpdate ==
    /\ req = NoOut
    /\ req' \in {[op |-> "ingest", rows |-> rows] : rows \in Uploads}
    /\ out' = NoOut
    /\ UNCHANGED <<store, cbcs>>

\* POST /update_data: every row of the file is processed, then the counts
\* are rendered
UpdateData ==
    /\ req.op = "ingest"
    /\ out = NoOut
    /\ LET r == IngestLoop([st |-> store, updated_count |-> 0, inserted_count |-> 0], req.rows)
       IN /\ store' = r.st
          /\ out' = [op |-> "ingest", updated_count |-> r.updated_count,
                     inserted_count |-> r.inserted_count]
    /\ UNCHANGED <<cbcs, req>>

\* the response has been delivered; the next request may arrive
Respond ==
    /\ out # NoOut
    /\ req' = NoOut
    /\ out' = NoOut
    /\ UNCHANGED <<store, cbcs>>

Next == RequestUpdate \/ UpdateData \/ Respond

Spec == Init /\ [][Next]_vars

\* the normalized grades of the uploaded rows for one (Reg_No, Subject_Code)
RowGradesFor(rows, reg_no, subject_code) ==
    LET hit == SelectSeq(rows, LAMBDA row :
                   /\ Upper(Strip(row.Reg_No.s)) = reg_no
                   /\ Upper(Strip(row.Subject_Code.s)) = subject_code)
    IN [j \in 1..Len(hit) |-> Upper(Strip(hit[j].Grade.s))]

Markers == {<<"F">>, <<"S">>, <<"M">>, <<"I">>, <<"R">>, <<>>}

\* the grade a record with a marker grade ends with: each matching row
\* replaces the marker until a row supplies a grade that is not a marker
SettledGrade(gs) ==
    IF \E j \in 1..Len(gs) : gs[j] \notin Markers
    THEN gs[CHOOSE j \in 1..Len(gs) : gs[j] \notin Markers /\ \A k \in 1..(j - 1) : gs[k] \in Markers]
    ELSE gs[Len(gs)]

\* C1: an ingest leaves every stored grade outside {F, S, M, I, R, ""}
\* unchanged whatever the upload supplies, and replaces a stored marker grade
\* by the uploaded grade; a record that holds a passing grade keeps it.
C1_PassingGradeKept ==
    [][(req.op = "ingest" /\ out'.op = "ingest") =>
        \A i \in 1..Len(store) :
            LET d == store[i]
                gs == RowGradesFor(req.rows, d.Reg_No, d.Subject_Code)
            IN /\ Len(store') >= i
               /\ store'[i].Reg_No = d.Reg_No /\ store'[i].Subject_Code = d.Subject_Code
               /\ d.Grade \notin Markers => store'[i].Grade = d.Grade
               /\ (d.Grade \in Markers /\ gs # <<>>) => store'[i].Grade = SettledGrade(gs)
               /\ (d.Grade \in Markers /\ gs = <<>>) => store'[i].Grade = d.Grade]_vars

\* a record holds "A" although the last upload carried "F" for its key
C1_Witness ==
    /\ req.op = "ingest" /\ out.op = "ingest"
    /\ out.updated_count = 0 /\ out.inserted_count = 0
    /\ \E i \in 1..Len(store) :
          /\ store[i].Grade = <<"A">>
          /\ <<"F">> \in {RowGradesFor(req.rows, store[i].Reg_No, store[i].Subject_Code)[j] :
                            j \in 1..Len(RowGradesFor(req.rows, store[i].Reg_No, store[i].Subject_Code))}

\* at most one record per (Reg_No, Subject_Code)
UniqueKeys(st) ==
    \A i, j \in 1..Len(st) :
        (st[i].Reg_No = st[j].Reg_No /\ st[i].Subject_Code = st[j].Subject_Code) => i = j

\* the uploaded rows whose registration and subject code are non-empty
\* once trimmed and upper-cased
KeyedRows(rows) ==
    SelectSeq(rows, LAMBDA row :
        /\ Upper(Strip(row.Reg_No.s)) # <<>>
        /\ Upper(Strip(row.Subject_Code.s)) # <<>>)

NormalKey(k) == k # <<>> /\ k = Upper(Strip(k))

\* C19: an ingest stores and looks up registration and subject code trimmed
\* and upper-cased; a row whose registration or subject code is empty after
\* that has no effect on the store and on the two counts, and the rows
\* after it are processed: the outcome is that of the upload without such
\* rows.
C19_EmptyKeyRowsSkipped ==
    [][(req.op = "ingest" /\ out'.op = "ingest") =>
        LET kept == KeyedRows(req.rows)
            r == IngestLoop([st |-> store, updated_count |-> 0, inserted_count |-> 0], kept)
        IN /\ store' = r.st
           /\ out'.updated_count = r.updated_count
           /\ out'.inserted_count = r.inserted_count
           /\ out'.updated_count + out'.inserted_count <= Len(kept)
           /\ Len(store') = Len(store) + out'.inserted_count
           /\ UniqueKeys(store')
           /\ \A i \in 1..Len(store') :
                 /\ NormalKey(store'[i].Reg_No) /\ NormalKey(store'[i].Subject_Code)
                 /\ i > Len(store) =>
                       \E j \in 1..Len(kept) :
                           /\ store'[i].Reg_No = Upper(Strip(kept[j].Reg_No.s))
                           /\ store'[i].Subject_Code = Upper(Strip(kept[j].Subject_Code.s))]_vars

\* an upload whose first row has a blank registration and whose second row
\* is " 2200000101 " / "cs1 " inserted exactly the record 2200000101 / CS1
C19_Witness ==
    /\ req.op = "ingest" /\ out.op = "ingest"
    /\ Len(req.rows) = 2
    /\ req.rows[1].Reg_No = PyStr(S(" "))
    /\ req.rows[2].Reg_No = PyStr(S(" 2200000101 "))
    /\ req.rows[2].Subject_Code = PyStr(S("cs1 "))
    /\ out.inserted_count = 1 /\ out.updated_count = 0
    /\ store[Len(store)].Reg_No = S("2200000101")
    /\ store[Len(store)].Subject_Code = S("CS1")

\* C22: after any sequence of ingests executed one after the other, each
\* processing its rows one at a time, the store holds at most one record
\* per (Reg_No, Subject_Code), also when an upload repeats a pair.
C22_OneRecordPerPair ==
    \A i, j \in 1..Len(store) :
        i # j => <<store[i].Reg_No, store[i].Subject_Code>> # <<store[j].Reg_No, store[j].Subject_Code>>

\* an upload carried the same pair in two rows: the first row inserted the
\* record, the second updated it
C22_Witness ==
    /\ req.op = "ingest" /\ out.op = "ingest"
    /\ Len(req.rows) = 2
    /\ RowFields(req.rows[1]).Reg_No = RowFields(req.rows[2]).Reg_No
    /\ RowFields(req.rows[1]).Subject_Code = RowFields(req.rows[2]).Subject_Code
    /\ out.inserted_count = 1 /\ out.updated_count = 1
    /\ Len(store) = 2

\* the result of ingesting the rows of the current request once more
SecondRun == IngestLoop([st |-> store, updated_count |-> 0, inserted_count |-> 0], req.rows)

\* C26: bulk ingest is idempotent on the store: in the state an ingest of an
\* upload leaves, ingesting the same upload again changes no record and
\* inserts nothing (its updated count may be non-zero).
C26_IngestIdempotent ==
    (req.op = "ingest" /\ out.op = "ingest") =>
        (SecondRun.st = store /\ SecondRun.inserted_count = 0)

\* an upload that repeats a pair with two backlog markers has been ingested
\* on top of an earlier upload: the second run would update but not insert
C26_Witness ==
    /\ req.op = "ingest" /\ out.op = "ingest"
    /\ out.inserted_count > 0
    /\ Len(store) > out.inserted_count
    /\ SecondRun.updated_count > 0
    /\ SecondRun.st = store

(***************************************************************************)
(* Registration decoding, store queries, backlog and batch search.         *)
(***************************************************************************)
MaxSearchDocs == 2

BranchName(str) ==
    CASE str = "Civil Engineering" -> <<"C", "i", "v", "i", "l", " ", "E", "n", "g", "i", "n", "e", "e", "r", "i", "n", "g">>
      [] str = "Computer Science Engineering" -> <<"C", "o", "m", "p", "u", "t", "e", "r", " ", "S", "c", "i", "e", "n", "c", "e", " ", "E", "n", "g", "i", "n", "e", "e", "r", "i", "n", "g">>
      [] str = "Electronics & Communication Engineering" -> <<"E", "l", "e", "c", "t", "r", "o", "n", "i", "c", "s", " ", "&", " ", "C", "o", "m", "m", "u", "n", "i", "c", "a", "t", "i", "o", "n", " ", "E", "n", "g", "i", "n", "e", "e", "r", "i", "n", "g">>
      [] str = "Electrical & Electronics Engineering" -> <<"E", "l", "e", "c", "t", "r", "i", "c", "a", "l", " ", "&", " ", "E", "l", "e", "c", "t", "r", "o", "n", "i", "c", "s", " ", "E", "n", "g", "i", "n", "e", "e", "r", "i", "n", "g">>
      [] str = "Mechanical Engineering" -> <<"M", "e", "c", "h", "a", "n", "i", "c", "a", "l", " ", "E", "n", "g", "i", "n", "e", "e", "r", "i", "n", "g">>
      [] str = "Unknown Branch" -> <<"U", "n", "k", "n", "o", "w", "n", " ", "B", "r", "a", "n", "c", "h">>
      [] str = "Invalid Registration" -> <<"I", "n", "v", "a", "l", "i", "d", " ", "R", "e", "g", "i", "s", "t", "r", "a", "t", "i", "o", "n">>
      [] str = "Unknown" -> <<"U", "n", "k", "n", "o", "w", "n">>

\* a mutant of get_branch_from_reg_no: the code is read one character early
get_branch_from_reg_no_early(reg_no) ==
    IF Len(reg_no) >= 10
    THEN LET branch_code == reg_no[7]
         IN CASE branch_code = "1" -> BranchName("Civil Engineering")
              [] branch_code = "2" -> BranchName("Computer Science Engineering")
              [] branch_code = "3" -> BranchName("Electronics & Communication Engineering")
              [] branch_code = "5" -> BranchName("Electrical & Electronics Engineering")
              [] branch_code = "6" -> BranchName("Mechanical Engineering")
              [] OTHER -> BranchName("Unknown Branch")
    ELSE BranchName("Invalid Registration")

\* get_branch_from_reg_no
get_branch_from_reg_no(reg_no) ==
    IF Len(reg_no) >= 10
    THEN LET branch_code == reg_no[8]
         IN CASE branch_code = "1" -> BranchName("Civil Engineering")
              [] branch_code = "2" -> BranchName("Computer Science Engineering")
              [] branch_code = "3" -> BranchName("Electronics & Communication Engineering")
              [] branch_code = "5" -> BranchName("Electrical & Electronics Engineering")
              [] branch_code = "6" -> BranchName("Mechanical Engineering")
              [] OTHER -> BranchName("Unknown Branch")
    ELSE BranchName("Invalid Registration")

\* get_year_from_reg_no: the table maps '20'..'29' to '2020'..'2029', any
\* other code yields '20' + code
get_year_from_reg_no(reg_no) ==
    IF Len(reg_no) >= 2
    THEN LET year_code == SubSeq(reg_no, 1, 2)
         IN IF year_code[1] = "2" /\ IsDigit(year_code[2])
            THEN <<"2", "0", "2", year_code[2]>>
            ELSE <<"2", "0">> \o year_code
    ELSE <<"U", "n", "k", "n", "o", "w", "n">>

\* str.split(): the words between runs of blanks
SplitWords(s) == SelectSeq(Split(s, " "), LAMBDA w : w # <<>>)

\* row['Branch'].split()[0], 'Unknown' for 'Unknown Branch'
BranchShort(branch) ==
    IF branch # BranchName("Unknown Branch") THEN SplitWords(branch)[1] ELSE BranchName("Unknown")

branch_mapping ==
    << [name |-> <<"c", "i", "v", "i", "l">>, code |-> "1"],
       [name |-> <<"c", "i", "v", "i", "l", " ", "e", "n", "g", "i", "n", "e", "e", "r", "i", "n", "g">>, code |-> "1"],
       [name |-> <<"c", "s", "e">>, code |-> "2"],
       [name |-> <<"c", "o", "m", "p", "u", "t", "e", "r", " ", "s", "c", "i", "e", "n", "c", "e">>, code |-> "2"],
       [name |-> <<"c", "o", "m", "p", "u", "t", "e", "r", " ", "s", "c", "i", "e", "n", "c", "e", " ", "e", "n", "g", "i", "n", "e", "e", "r", "i", "n", "g">>, code |-> "2"],
       [name |-> <<"e", "c", "e">>, code |-> "3"],
       [name |-> <<"e", "l", "e", "c", "t", "r", "o", "n", "i", "c", "s">>, code |-> "3"],
       [name |-> <<"e", "l", "e", "c", "t", "r", "o", "n", "i", "c", "s", " ", "&", " ", "c", "o", "m", "m", "u", "n", "i", "c", "a", "t", "i", "o", "n">>, code |-> "3"],
       [name |-> <<"e", "l", "e", "c", "t", "r", "o", "n", "i", "c", "s", " ", "&", " ", "c", "o", "m", "m", "u", "n", "i", "c", "a", "t", "i", "o", "n", " ", "e", "n", "g", "i", "n", "e", "e", "r", "i", "n", "g">>, code |-> "3"],
       [name |-> <<"e", "e", "e">>, code |-> "5"],
       [name |-> <<"e", "l", "e", "c", "t", "r", "i", "c", "a", "l">>, code |-> "5"],
       [name |-> <<"e", "l", "e", "c", "t", "r", "i", "c", "a", "l", " ", "&", " ", "e", "l", "e", "c", "t", "r", "o", "n", "i", "c", "s">>, code |-> "5"],
       [name |-> <<"e", "l", "e", "c", "t", "r", "i", "c", "a", "l", " ", "&", " ", "e", "l", "e", "c", "t", "r", "o", "n", "i", "c", "s", " ", "e", "n", "g", "i", "n", "e", "e", "r", "i", "n", "g">>, code |-> "5"],
       [name |-> <<"m", "e", "c", "h", "a", "n", "i", "c", "a", "l">>, code |-> "6"],
       [name |-> <<"m", "e", "c", "h", "a", "n", "i", "c", "a", "l", " ", "e", "n", "g", "i", "n", "e", "e", "r", "i", "n", "g">>, code |-> "6"] >>

\* a mutant of get_branch_code_from_input: the input is not lower-cased
get_branch_code_from_input_exact(branch_input) ==
    LET branch_lower == Strip(branch_input)
    IN IF \E i \in 1..Len(branch_mapping) : branch_mapping[i].name = branch_lower
       THEN (CHOOSE e \in {branch_mapping[i] : i \in 1..Len(branch_mapping)} : e.name = branch_lower).code
       ELSE ""

\* branch_mapping.get(branch_input.lower().strip()); "" stands for None
get_branch_code_from_input(branch_input) ==
    LET branch_lower == Strip(Lower(branch_input))
    IN IF \E i \in 1..Len(branch_mapping) : branch_mapping[i].name = branch_lower
       THEN (CHOOSE e \in {branch_mapping[i] : i \in 1..Len(branch_mapping)} : e.name = branch_lower).code
       ELSE ""

(* A query is a dict: a function from keys to conditions.                  *)
(*   [k |-> "in", vals]     {"$in": vals}                                  *)
(*   [k |-> "eq", val]      equality                                       *)
(*   [k |-> "regex", skip, lit]  {"$regex": "^.{skip}lit"}                 *)
(*   [k |-> "and", conds]   "$and" over a list of dicts                    *)
EmptyDict == [x \in {} |-> 0]

\* dict.update(d): the keys of d replace those of q
DictUpdate(q, d) == d @@ q

DictSet(q, key, val) == (key :> val) @@ q

\* {"Reg_No": {"$regex": f"^.{{{7}}}{branch_code}"}}
BranchCondition(branch_code) == "Reg_No" :> [k |-> "regex", skip |-> 7, lit |-> <<branch_code>>]

\* {"Reg_No": {"$regex": f"^{year_short}"}}
YearCondition(year_short) == "Reg_No" :> [k |-> "regex", skip |-> 0, lit |-> year_short]

\* re.search of an anchored pattern ^.{skip}lit in text
RegexMatch(c, text) ==
    /\ Len(text) >= c.skip + Len(c.lit)
    /\ SubSeq(text, c.skip + 1, c.skip + Len(c.lit)) = c.lit

RECURSIVE MatchDoc(_, _)
MatchCond(doc, key, c) ==
    CASE c.k = "in" -> doc[key] \in c.vals
      [] c.k = "eq" -> doc[key] = c.val
      [] c.k = "regex" -> RegexMatch(c, doc[key])
      [] c.k = "and" -> \A i \in 1..Len(c.conds) : MatchDoc(doc, c.conds[i])

MatchDoc(doc, q) == \A key \in DOMAIN q : MatchCond(doc, key, q[key])

\* collection.find(q): the matching documents in natural order
Find(st, q) == SelectSeq(st, LAMBDA doc : MatchDoc(doc, q))

\* a mutant of BacklogBaseQuery: no grade predicate
BacklogBaseQuery_open == EmptyDict

\* base_query = {"Grade": {"$in": ["F", "M", "S", "I", "R"]}}
BacklogBaseQuery ==
    "Grade" :> [k |-> "in", vals |-> {<<"F">>, <<"M">>, <<"S">>, <<"I">>, <<"R">>}]

\* a mutant of YearShort: a 4-digit year keeps its first two digits
YearShort_first(year_filter) ==
    IF Len(year_filter) = 4 /\ IsDigitStr(year_filter)
    THEN [ok |-> TRUE, short |-> SubSeq(year_filter, 1, 2)]
    ELSE IF Len(year_filter) = 2 /\ IsDigitStr(year_filter)
    THEN [ok |-> TRUE, short |-> year_filter]
    ELSE [ok |-> FALSE, short |-> year_filter]

\* the year / batch validation: ok = FALSE is the "Invalid ... format" message
YearShort(year_filter) ==
    IF Len(year_filter) = 4 /\ IsDigitStr(year_filter)
    THEN [ok |-> TRUE, short |-> SubSeq(year_filter, 3, 4)]
    ELSE IF Len(year_filter) = 2 /\ IsDigitStr(year_filter)
    THEN [ok |-> TRUE, short |-> year_filter]
    ELSE [ok |-> FALSE, short |-> year_filter]

\* the branch / year part shared by the subject-code mode, the advanced mode
\* and the batch search: the list reg_conditions and the message
RegConditions(branch_filter, year_filter) ==
    LET branch_code == get_branch_code_from_input(branch_filter)
        m1 == IF branch_filter # <<>> /\ branch_code = "" THEN "Invalid branch selection" ELSE ""
        c1 == IF branch_filter # <<>> /\ branch_code # "" THEN <<BranchCondition(branch_code)>> ELSE <<>>
        y == YearShort(year_filter)
        yearSeen == year_filter # <<>> /\ m1 = ""
        m2 == IF yearSeen /\ ~y.ok THEN "Invalid year format" ELSE m1
        c2 == IF yearSeen /\ y.ok THEN Append(c1, YearCondition(y.short)) ELSE c1
    IN [message |-> m2, reg_conditions |-> c2]

\* a mutant of WithRegConditions: of two conditions only the first is used
WithRegConditions_first(base_query, rc) ==
    IF rc.reg_conditions # <<>> /\ rc.message = ""
    THEN DictUpdate(base_query, rc.reg_conditions[1])
    ELSE base_query

\* if reg_conditions and not message: one condition is merged into the
\* query, two go under "$and"
WithRegConditions(base_query, rc) ==
    IF rc.reg_conditions # <<>> /\ rc.message = ""
    THEN IF Len(rc.reg_conditions) = 1
         THEN DictUpdate(base_query, rc.reg_conditions[1])
         ELSE DictSet(base_query, "$and", [k |-> "and", conds |-> rc.reg_conditions])
    ELSE base_query

\* the annotation of a result row (lines 519-525, 625-633)
Annotate(doc) ==
    LET branch == get_branch_from_reg_no(doc.Reg_No)
    IN [Reg_No |-> doc.Reg_No, Subject_Code |-> doc.Subject_Code, Grade |-> doc.Grade,
        Sem |-> doc.Sem, Name |-> doc.Name, Subject_Name |-> doc.Subject_Name,
        Branch |-> branch, Year |-> get_year_from_reg_no(doc.Reg_No),
        Branch_Short |-> BranchShort(branch)]

\* the counters branch_stats / year_stats over the result rows
Stats(result, field) ==
    [v \in {result[i][field] : i \in 1..Len(result)} |->
        Cardinality({i \in 1..Len(result) : result[i][field] = v})]

\* a mutant of BacklogMode: the subject code takes priority over the
\* registration
BacklogMode_code_first(reg_no, subject_code, branch_filter, year_filter) ==
    IF subject_code # <<>> THEN "subject_code"
    ELSE IF reg_no # <<>> THEN "registration"
    ELSE IF branch_filter # <<>> \/ year_filter # <<>> THEN "advanced"
    ELSE "None"

\* the if / elif chain of backlog: which search mode the inputs select
BacklogMode(reg_no, subject_code, branch_filter, year_filter) ==
    IF reg_no # <<>> THEN "registration"
    ELSE IF subject_code # <<>> THEN "subject_code"
    ELSE IF branch_filter # <<>> \/ year_filter # <<>> THEN "advanced"
    ELSE "None"

\* POST /backlog
backlog(st, form) ==
    LET reg_no == Upper(Strip(form.registration))
        subject_code == Upper(Strip(form.subject_code))
        branch_filter == Strip(form.branch)
        year_filter == Strip(form.year)
        search_type == BacklogMode(reg_no, subject_code, branch_filter, year_filter)
        rc == IF search_type \in {"subject_code", "advanced"}
              THEN RegConditions(branch_filter, year_filter)
              ELSE [message |-> "", reg_conditions |-> <<>>]
        q0 == CASE search_type = "registration" -> DictSet(BacklogBaseQuery, "Reg_No", [k |-> "eq", val |-> reg_no])
                [] search_type = "subject_code" -> DictSet(BacklogBaseQuery, "Subject_Code", [k |-> "eq", val |-> subject_code])
                [] OTHER -> BacklogBaseQuery
        base_query == WithRegConditions(q0, rc)
        anyInput == reg_no # <<>> \/ subject_code # <<>> \/ branch_filter # <<>> \/ year_filter # <<>>
        queried == rc.message = "" /\ anyInput
        found == IF queried THEN Find(st, base_query) ELSE <<>>
        result == [i \in 1..Len(found) |-> Annotate(found[i])]
        message == IF queried
                   THEN IF Len(result) = 0
                        THEN CASE search_type = "registration" -> "No backlog found for registration number"
                               [] search_type = "subject_code" -> "No students found with backlog"
                               [] search_type = "advanced" -> "No backlog found for criteria"
                        ELSE ""
                   ELSE IF ~anyInput THEN "Please enter a registration number, subject code, or select branch/year"
                   ELSE rc.message
    IN [op |-> "backlog", queried |-> queried, query |-> base_query, result |-> result,
        count |-> Len(result), message |-> message, search_type |-> search_type,
        branch_stats |-> Stats(result, "Branch_Short"), year_stats |-> Stats(result, "Year")]

\* the characters of the model in code-point order
Ascii == <<" ", "&", "+", "-", "0", "1", "2", "3", "4", "5", "6", "7", "8", "9", "A", "B", "C", "D", "E", "F", "G", "H", "I", "J", "K", "L", "M", "N", "O", "P", "Q", "R", "S", "T", "U", "V", "W", "X", "Y", "Z", "a", "b", "c", "d", "e", "f", "g", "h", "i", "j", "k", "l", "m", "n", "o", "p", "q", "r", "s", "t", "u", "v", "w", "x", "y", "z">>

Rank(c) == CHOOSE i \in 1..Len(Ascii) : Ascii[i] = c

\* a < b for two strs
RECURSIVE StrLess(_, _)
StrLess(a, b) ==
    IF b = <<>> THEN FALSE
    ELSE IF a = <<>> THEN TRUE
    ELSE IF Head(a) = Head(b) THEN StrLess(Tail(a), Tail(b))
    ELSE Rank(Head(a)) < Rank(Head(b))

\* the order of .sort([("Reg_No", 1), ("Sem", 1), ("Subject_Code", 1)])
DocBefore(a, b) ==
    \/ StrLess(a.Reg_No, b.Reg_No)
    \/ a.Reg_No = b.Reg_No /\ StrLess(a.Sem, b.Sem)
    \/ a.Reg_No = b.Reg_No /\ a.Sem = b.Sem /\ StrLess(a.Subject_Code, b.Subject_Code)

RECURSIVE InsertSorted(_, _)
InsertSorted(d, sorted) ==
    IF sorted = <<>> THEN <<d>>
    ELSE IF DocBefore(d, Head(sorted)) THEN <<d>> \o sorted
    ELSE <<Head(sorted)>> \o InsertSorted(d, Tail(sorted))

RECURSIVE SortDocs(_)
SortDocs(docs) ==
    IF docs = <<>> THEN <<>>
    ELSE InsertSorted(docs[Len(docs)], SortDocs(SubSeq(docs, 1, Len(docs) - 1)))

\* one result row of /batch with its branch and batch annotations
BatchRow(doc) ==
    LET branch == get_branch_from_reg_no(doc.Reg_No)
    IN [Reg_No |-> doc.Reg_No, Subject_Code |-> doc.Subject_Code,
        Grade |-> doc.Grade, Sem |-> doc.Sem, Name |-> doc.Name,
        Subject_Name |-> doc.Subject_Name, Credits |-> doc.Credits,
        Branch |-> branch,
        Batch |-> get_year_from_reg_no(doc.Reg_No),
        Branch_Short |-> BranchShort(branch)]

\* the rendered page: the rows, the counters and the message
BatchPage(rc_message, anyInput, queried, base_query, result) ==
    LET message == IF rc_message = "" /\ anyInput
                   THEN IF ~queried THEN "Please select at least one filter (branch or batch)"
                        ELSE IF Len(result) = 0 THEN "No records found for criteria"
                        ELSE "Found records"
                   ELSE IF rc_message = "" THEN "Please select branch and/or batch to view data"
                   ELSE IF rc_message = "Invalid year format" THEN "Invalid batch format"
                   ELSE rc_message
    IN [op |-> "batch", queried |-> queried, query |-> base_query, result |-> result,
        count |-> Len(result), message |-> message,
        student_count |-> Cardinality({result[i].Reg_No : i \in 1..Len(result)}),
        branch_stats |-> Stats(result, "Branch_Short"), batch_stats |-> Stats(result, "Batch")]

\* the find with the query built from the filters, sorted, then annotated
BatchQuery(st, rc_message, anyInput, queried, base_query) ==
    LET found == IF queried THEN SortDocs(Find(st, base_query)) ELSE <<>>
    IN BatchPage(rc_message, anyInput, queried, base_query,
                 [i \in 1..Len(found) |-> BatchRow(found[i])])

\* the query runs when the filters are valid and at least one is given
BatchFilters(st, rc, anyInput, base_query) ==
    BatchQuery(st, rc.message, anyInput,
               rc.message = "" /\ anyInput /\ DOMAIN base_query # {}, base_query)

BatchConditions(st, rc, anyInput) == BatchFilters(st, rc, anyInput, WithRegConditions(EmptyDict, rc))

\* POST /batch
batch(st, form) ==
    LET branch_filter == Strip(form.branch)
        batch_filter == Strip(form.batch)
    IN BatchConditions(st, RegConditions(branch_filter, batch_filter),
                       branch_filter # <<>> \/ batch_filter # <<>>)

(***************************************************************************)
(* SpecSearch: backlog and batch searches over bounded stores.             *)
(***************************************************************************)
SearchRegs == {<<"2", "1", "0", "0", "0", "0", "0", "2", "0", "1">>, <<"2", "2", "0", "0", "0", "0", "0", "1", "0", "1">>, <<"2", "1", "0", "0", "0", "0", "0", "2">>}

SearchDocs ==
    {[Reg_No |-> r, Subject_Code |-> c[1], Grade |-> g, Name |-> <<"A", "s", "h", "a">>,
      Sem |-> c[2], Subject_Name |-> <<"M", "a", "t", "h", "s">>, Subject_Type |-> <<"T", "h", "e", "o", "r", "y">>,
      Credits |-> <<"2", "+", "0", "+", "1">>] :
        r \in SearchRegs,
        c \in {<<<<"C", "S", "1">>, <<"S", "e", "m", " ", "4">>>>, <<<<"M", "A", "2">>, <<"S", "e", "m", " ", "3">>>>},
        g \in {<<"A">>, <<"F">>}}

SearchStores ==
    {st \in UNION {[1..n -> SearchDocs] : n \in 0..MaxSearchDocs} : UniqueKeys(st)}

FormRegs == {<<>>, <<"2", "1", "0", "0", "0", "0", "0", "2", "0", "1">>}

FormCodes == {<<>>, <<"c", "s", "1", " ">>}

CseInputs == {<<"C", "S", "E">>, <<" ", "c", "o", "m", "p", "u", "t", "e", "r", " ", "s", "c", "i", "e", "n", "c", "e">>, <<"C", "o", "m", "p", "u", "t", "e", "r", " ", "S", "c", "i", "e", "n", "c", "e", " ", "E", "n", "g", "i", "n", "e", "e", "r", "i", "n", "g">>}

CivilInputs == {<<"C", "i", "v", "i", "l">>}

BadBranchInputs == {<<"x", "y", "z">>}

FormBranches == {<<>>} \cup CseInputs \cup CivilInputs \cup BadBranchInputs

GoodYears == {<<"2", "1">>, <<"2", "0", "2", "2">>}

BadYears == {<<"2", "0", "2">>, <<"2", "a">>}

FormYears == {<<>>} \cup GoodYears \cup BadYears

SearchInit ==
    /\ store \in SearchStores
    /\ cbcs = <<>>
    /\ req = NoOut
    /\ out = NoOut

RequestBacklog ==
    /\ req = NoOut
    /\ req' \in {[op |-> "backlog", form |-> f] :
                   f \in [registration : FormRegs, subject_code : FormCodes,
                          branch : FormBranches, year : FormYears]}
    /\ out' = NoOut
    /\ UNCHANGED <<store, cbcs>>

RequestBatch ==
    /\ req = NoOut
    /\ req' \in {[op |-> "batch", form |-> f] : f \in [branch : FormBranches, batch : FormYears]}
    /\ out' = NoOut
    /\ UNCHANGED <<store, cbcs>>

Backlog ==
    /\ req.op = "backlog"
    /\ out = NoOut
    /\ out' = backlog(store, req.form)
    /\ UNCHANGED <<store, cbcs, req>>

Batch ==
    /\ req.op = "batch"
    /\ out = NoOut
    /\ out' = batch(store, req.form)
    /\ UNCHANGED <<store, cbcs, req>>

SearchNext == RequestBacklog \/ RequestBatch \/ Backlog \/ Batch \/ Respond

SpecSearch == SearchInit /\ [][SearchNext]_vars

BacklogGrades == {<<"F">>, <<"M">>, <<"S">>, <<"I">>, <<"R">>}

\* C7: every query a backlog search executes, in each mode, carries the
\* predicate Grade in {F, M, S, I, R}, and every result row has such a grade.
C7_BacklogGradeOnly ==
    (out.op = "backlog" /\ out.queried) =>
        /\ out.search_type \in {"registration", "subject_code", "advanced"}
        /\ "Grade" \in DOMAIN out.query
        /\ out.query["Grade"] = [k |-> "in", vals |-> BacklogGrades]
        /\ \A i \in 1..Len(out.result) : out.result[i].Grade \in BacklogGrades

\* an advanced search returned a row while the store holds a passing record
\* of the same student
C7_Witness ==
    /\ out.op = "backlog" /\ out.queried
    /\ out.search_type = "advanced"
    /\ out.count = 1
    /\ \E i \in 1..Len(store) :
          store[i].Grade = <<"A">> /\ store[i].Reg_No = out.result[1].Reg_No

FormReg == Upper(Strip(req.form.registration))

FormCode == Upper(Strip(req.form.subject_code))

FormBranch == Strip(req.form.branch)

FormYear == IF req.op = "batch" THEN Strip(req.form.batch) ELSE Strip(req.form.year)

\* the documents of the store with a backlog grade that satisfy P
BacklogRows(P(_)) ==
    SelectSeq(store, LAMBDA d : d.Grade \in BacklogGrades /\ P(d))

ResultKeys == [i \in 1..Len(out.result) |-> <<out.result[i].Reg_No, out.result[i].Subject_Code>>]

KeysOf(docs) == [i \in 1..Len(docs) |-> <<docs[i].Reg_No, docs[i].Subject_Code>>]

HasBranchCond(q, code) ==
    \/ "Reg_No" \in DOMAIN q /\ q["Reg_No"] = [k |-> "regex", skip |-> 7, lit |-> <<code>>]
    \/ /\ "$and" \in DOMAIN q
       /\ \E i \in 1..Len(q["$and"].conds) :
             q["$and"].conds[i]["Reg_No"] = [k |-> "regex", skip |-> 7, lit |-> <<code>>]

HasYearCond(q, yy) ==
    \/ "Reg_No" \in DOMAIN q /\ q["Reg_No"] = [k |-> "regex", skip |-> 0, lit |-> yy]
    \/ /\ "$and" \in DOMAIN q
       /\ \E i \in 1..Len(q["$and"].conds) :
             q["$and"].conds[i]["Reg_No"] = [k |-> "regex", skip |-> 0, lit |-> yy]

HasRegCond(q) == "Reg_No" \in DOMAIN q \/ "$and" \in DOMAIN q

\* C8: the backlog search picks one mode by precedence: registration (grade
\* and Reg_No only; subject code, branch and year ignored), else subject code
\* (narrowed by branch / year), else advanced; with no input no query is
\* executed and the prompt is returned.
C8_ModePrecedence ==
    out.op = "backlog" =>
        /\ FormReg # <<>> =>
              /\ out.search_type = "registration"
              /\ out.queried
              /\ DOMAIN out.query = {"Grade", "Reg_No"}
              /\ out.query["Reg_No"] = [k |-> "eq", val |-> FormReg]
              /\ ResultKeys = KeysOf(BacklogRows(LAMBDA d : d.Reg_No = FormReg))
        /\ (FormReg = <<>> /\ FormCode # <<>>) =>
              /\ out.search_type = "subject_code"
              /\ "Subject_Code" \in DOMAIN out.query
              /\ out.query["Subject_Code"] = [k |-> "eq", val |-> FormCode]
              /\ (FormBranch = <<>> /\ FormYear = <<>>) =>
                    /\ out.queried
                    /\ ResultKeys = KeysOf(BacklogRows(LAMBDA d : d.Subject_Code = FormCode))
              /\ (out.queried /\ (FormBranch # <<>> \/ FormYear # <<>>)) => HasRegCond(out.query)
              /\ \A i \in 1..Len(out.result) : out.result[i].Subject_Code = FormCode
        /\ (FormReg = <<>> /\ FormCode = <<>> /\ (FormBranch # <<>> \/ FormYear # <<>>)) =>
              /\ out.search_type = "advanced"
              /\ "Subject_Code" \notin DOMAIN out.query
              /\ out.queried => HasRegCond(out.query)
        /\ (FormReg = <<>> /\ FormCode = <<>> /\ FormBranch = <<>> /\ FormYear = <<>>) =>
              /\ ~out.queried
              /\ out.result = <<>>
              /\ out.message = "Please enter a registration number, subject code, or select branch/year"

\* a registration search ran although a subject code, an unknown branch and
\* a malformed year were given as well
C8_Witness ==
    /\ out.op = "backlog"
    /\ FormReg # <<>> /\ FormCode # <<>>
    /\ FormBranch \in BadBranchInputs /\ FormYear \in BadYears
    /\ out.search_type = "registration"
    /\ out.count >= 1

\* the branch filter applies: batch search, or backlog search without a
\* registration
FilterApplies ==
    \/ out.op = "batch"
    \/ out.op = "backlog" /\ FormReg = <<>>

\* C9: where the branch filter applies, a branch text outside the synonym
\* table gives a validation message, no query and no result; the synonyms of
\* one branch, in any letter case, resolve to the same code.
C9_BranchValidation ==
    (FilterApplies /\ FormBranch # <<>>) =>
        /\ req.form.branch \in BadBranchInputs =>
              /\ out.message = "Invalid branch selection"
              /\ ~out.queried
              /\ out.result = <<>> /\ out.count = 0
        /\ (req.form.branch \in CseInputs /\ FormYear \notin BadYears) =>
              /\ out.queried
              /\ HasBranchCond(out.query, "2")
              /\ \A i \in 1..Len(out.result) : out.result[i].Reg_No[8] = "2"
        /\ (req.form.branch \in CivilInputs /\ FormYear \notin BadYears) =>
              /\ out.queried
              /\ HasBranchCond(out.query, "1")
              /\ \A i \in 1..Len(out.result) : out.result[i].Reg_No[8] = "1"

\* a batch search by " computer science" returned a record of branch code 2
C9_Witness ==
    /\ out.op = "batch"
    /\ req.form.branch = <<" ", "c", "o", "m", "p", "u", "t", "e", "r", " ", "s", "c", "i", "e", "n", "c", "e">>
    /\ out.count >= 1
    /\ out.result[1].Reg_No[8] = "2"

LastTwo(y) == SubSeq(y, Len(y) - 1, Len(y))

TwoOrFourDigits(y) == Len(y) \in {2, 4} /\ \A i \in 1..Len(y) : IsDigit(y[i])

ValidationMessages == {"Invalid branch selection", "Invalid year format", "Invalid batch format"}

\* C10 as stated: in every backlog and batch search a non-empty year that is
\* not 2 or 4 digits gives a validation message and no query; an accepted
\* year constrains the registration to start with its last two digits.
C10_YearAlways ==
    (out.op \in {"backlog", "batch"} /\ FormYear # <<>>) =>
        /\ ~TwoOrFourDigits(FormYear) =>
              (out.message \in ValidationMessages /\ ~out.queried)
        /\ (TwoOrFourDigits(FormYear) /\ out.queried /\ FormReg = <<>>) =>
              /\ HasYearCond(out.query, LastTwo(FormYear))
              /\ \A i \in 1..Len(out.result) : SubSeq(out.result[i].Reg_No, 1, 2) = LastTwo(FormYear)

\* C10 amended: the same, in the searches where the year filter applies
\* (backlog without a registration, batch).
C10_YearWhereApplied ==
    (FilterApplies /\ FormYear # <<>>) =>
        /\ ~TwoOrFourDigits(FormYear) =>
              (out.message \in ValidationMessages /\ ~out.queried /\ out.result = <<>>)
        /\ (TwoOrFourDigits(FormYear) /\ req.form.branch \notin BadBranchInputs) =>
              /\ out.queried
              /\ HasYearCond(out.query, LastTwo(FormYear))
              /\ \A i \in 1..Len(out.result) : SubSeq(out.result[i].Reg_No, 1, 2) = LastTwo(FormYear)

\* an advanced backlog search by year "2022" returned a record of batch 22
C10_Witness ==
    /\ out.op = "backlog"
    /\ out.search_type = "advanced"
    /\ FormYear = <<"2", "0", "2", "2">>
    /\ out.count >= 1
    /\ SubSeq(out.result[1].Reg_No, 1, 2) = <<"2", "2">>

\* the form's branch and year filters as the searches read them
ValidBranch == FormBranch # <<>> /\ req.form.branch \notin BadBranchInputs

ValidYear == FormYear # <<>> /\ TwoOrFourDigits(FormYear)

BranchCodeOfForm == IF req.form.branch \in CseInputs THEN "2" ELSE "1"

\* the predicate on the other fields: the backlog grades and, in
\* subject-code mode, the subject code
BaseSelected(d) ==
    out.op = "backlog" =>
        /\ d.Grade \in BacklogGrades
        /\ FormCode # <<>> => d.Subject_Code = FormCode

RegSelected(d) ==
    /\ ValidBranch => (Len(d.Reg_No) >= 8 /\ d.Reg_No[8] = BranchCodeOfForm)
    /\ ValidYear => (Len(d.Reg_No) >= 2 /\ SubSeq(d.Reg_No, 1, 2) = LastTwo(FormYear))

\* C11: where the filters apply and every filter given is valid, the records
\* returned are exactly the stored records (of the mode's other predicate)
\* whose registration has the branch code as 8th character, when a branch is
\* given, and the 2-digit year as first two characters, when a year is
\* given: both when both are given, only the one given otherwise.
C11_FilterConjunction ==
    (FilterApplies /\ (ValidBranch \/ ValidYear)
       /\ (FormBranch # <<>> => ValidBranch) /\ (FormYear # <<>> => ValidYear)) =>
        /\ out.queried
        /\ {ResultKeys[i] : i \in 1..Len(ResultKeys)} =
              {<<store[i].Reg_No, store[i].Subject_Code>> :
                   i \in {j \in 1..Len(store) : BaseSelected(store[j]) /\ RegSelected(store[j])}}
        /\ Len(out.result) = Cardinality({j \in 1..Len(store) : BaseSelected(store[j]) /\ RegSelected(store[j])})

\* a batch search with a valid branch and a valid batch returned a record and
\* left another stored record out
C11_Witness ==
    /\ out.op = "batch"
    /\ ValidBranch /\ ValidYear
    /\ out.count >= 1
    /\ out.count < Len(store)
    /\ out.result[1].Reg_No[8] = BranchCodeOfForm
    /\ SubSeq(out.result[1].Reg_No, 1, 2) = LastTwo(FormYear)

(***************************************************************************)
(* Basket reconciliation, baskettrack.                                     *)
(***************************************************************************)
MaxCat == 2

B(str) ==
    CASE str = "Basket I" -> <<"B", "a", "s", "k", "e", "t", " ", "I">>
      [] str = "Basket II" -> <<"B", "a", "s", "k", "e", "t", " ", "I", "I">>
      [] str = "Basket III" -> <<"B", "a", "s", "k", "e", "t", " ", "I", "I", "I">>
      [] str = "Basket IV" -> <<"B", "a", "s", "k", "e", "t", " ", "I", "V">>
      [] str = "Basket V" -> <<"B", "a", "s", "k", "e", "t", " ", "V">>
      [] str = "Basket 1" -> <<"B", "a", "s", "k", "e", "t", " ", "1">>
      [] str = "Basket 2" -> <<"B", "a", "s", "k", "e", "t", " ", "2">>
      [] str = "Basket 3" -> <<"B", "a", "s", "k", "e", "t", " ", "3">>
      [] str = "Basket 4" -> <<"B", "a", "s", "k", "e", "t", " ", "4">>
      [] str = "Basket 5" -> <<"B", "a", "s", "k", "e", "t", " ", "5">>
      [] str = "null" -> <<"n", "u", "l", "l">>
      [] str = "Core" -> <<"C", "o", "r", "e">>
      [] str = "All" -> <<"A", "l", "l">>
      [] str = "Unknown" -> <<"U", "n", "k", "n", "o", "w", "n">>

\* the ten entries of the requirement table, in source order
BASKET_CREDIT_REQUIREMENTS ==
    << [name |-> <<"B", "a", "s", "k", "e", "t", " ", "I">>, credits |-> 17],
       [name |-> <<"B", "a", "s", "k", "e", "t", " ", "I", "I">>, credits |-> 12],
       [name |-> <<"B", "a", "s", "k", "e", "t", " ", "I", "I", "I">>, credits |-> 25],
       [name |-> <<"B", "a", "s", "k", "e", "t", " ", "I", "V">>, credits |-> 58],
       [name |-> <<"B", "a", "s", "k", "e", "t", " ", "V">>, credits |-> 48],
       [name |-> <<"B", "a", "s", "k", "e", "t", " ", "1">>, credits |-> 17],
       [name |-> <<"B", "a", "s", "k", "e", "t", " ", "2">>, credits |-> 12],
       [name |-> <<"B", "a", "s", "k", "e", "t", " ", "3">>, credits |-> 25],
       [name |-> <<"B", "a", "s", "k", "e", "t", " ", "4">>, credits |-> 58],
       [name |-> <<"B", "a", "s", "k", "e", "t", " ", "5">>, credits |-> 48] >>

\* BASKET_CREDIT_REQUIREMENTS.values()
RequirementValues ==
    [i \in 1..Len(BASKET_CREDIT_REQUIREMENTS) |-> BASKET_CREDIT_REQUIREMENTS[i].credits]

\* BASKET_CREDIT_REQUIREMENTS.get(basket_name, 0)
RequirementOf(basket_name) ==
    IF \E i \in 1..Len(BASKET_CREDIT_REQUIREMENTS) : BASKET_CREDIT_REQUIREMENTS[i].name = basket_name
    THEN BASKET_CREDIT_REQUIREMENTS[CHOOSE i \in 1..Len(BASKET_CREDIT_REQUIREMENTS) :
                                        BASKET_CREDIT_REQUIREMENTS[i].name = basket_name].credits
    ELSE 0

all_baskets == <<B("Basket I"), B("Basket II"), B("Basket III"), B("Basket IV"), B("Basket V")>>

\* round((n / d) * 100, 1) in tenths of a percent, for n >= 0 and d > 0:
\* the nearest tenth, a tie going to the even tenth.  (The double quotient
\* can fall on the other side of an exact tie; no total of the bounded
\* credit values below is such a tie.)
RoundTenths(n, d) ==
    LET q == (n * 1000) \div d
        r == (n * 1000) % d
    IN IF 2 * r < d THEN q
       ELSE IF 2 * r > d THEN q + 1
       ELSE IF q % 2 = 0 THEN q ELSE q + 1

\* str(list): "['w1', 'w2']"
RECURSIVE ReprItems(_)
ReprItems(words) ==
    IF Len(words) = 1 THEN <<"'">> \o words[1] \o <<"'">>
    ELSE <<"'">> \o words[1] \o <<"'", ",", " ">> \o ReprItems(Tail(words))

ReprList(words) == <<"[">> \o ReprItems(words) \o <<"]">>

\* the regexes f".*{branch_short}.*", f"{branch_short}.*", f".*{branch_short}"
\* with option i, branch_short being a list: its str() is a bracket
\* expression, so each of the three searches for one character of the class
BranchRegexMatch(words, text) ==
    LET pattern == ReprList(words)
        class == {LowerChar(pattern[i]) : i \in 2..(Len(pattern) - 1)}
    IN \E i \in 1..Len(text) : LowerChar(text[i]) \in class

\* the $or of branch_match_conditions on one catalogue entry whose Branch
\* is a string
BranchMatch(entryBranch, branch) ==
    \/ entryBranch = B("All")
    \/ branch = BranchName("Unknown Branch") /\ entryBranch = B("Unknown")
    \/ branch # BranchName("Unknown Branch") /\ BranchRegexMatch(SplitWords(branch), entryBranch)

\* a mutant of AssignedBasket: the numeric labels are not rewritten
AssignedBasket_raw(basket) ==
    IF basket # PyStr(<<>>) /\ basket # PyNone /\ basket # PyStr(B("null"))
    THEN basket.s ELSE B("Basket V")

\* the $switch that computes assigned_basket
AssignedBasket(basket) ==
    CASE basket = PyStr(B("Basket 1")) -> B("Basket I")
      [] basket = PyStr(B("Basket 2")) -> B("Basket II")
      [] basket = PyStr(B("Basket 3")) -> B("Basket III")
      [] basket = PyStr(B("Basket 4")) -> B("Basket IV")
      [] basket = PyStr(B("Basket 5")) -> B("Basket V")
      [] OTHER -> IF basket # PyStr(<<>>) /\ basket # PyNone /\ basket # PyStr(B("null"))
                  THEN basket.s ELSE B("Basket V")

\* the strs of a set in ascending order ($sort on _id)
RECURSIVE SortStrs(_)
SortStrs(set) ==
    IF set = {} THEN <<>>
    ELSE LET least == CHOOSE x \in set : \A y \in set \ {x} : StrLess(x, y)
         IN <<least>> \o SortStrs(set \ {least})

\* the aggregation pipeline: $match, $addFields, $group, $sort
Aggregate(cat, branch, basket) ==
    LET matched == SelectSeq(cat, LAMBDA e :
                       /\ BranchMatch(e.Branch, branch)
                       /\ (basket # <<>> /\ basket # B("All")) => e.Basket = PyStr(basket))
        ids == SortStrs({AssignedBasket(matched[i].Basket) : i \in 1..Len(matched)})
    IN [g \in 1..Len(ids) |->
           LET members == SelectSeq(matched, LAMBDA e : AssignedBasket(e.Basket) = ids[g])
           IN [id |-> ids[g],
               subjects |-> [k \in 1..Len(members) |->
                                [code |-> members[k].Subject_Code, name |-> members[k].Subject_name,
                                 credits |-> members[k].Credits, original_basket |-> members[k].Basket,
                                 branch |-> members[k].Branch]],
               total_subjects |-> Len(members)]]

RECURSIVE SumField(_, _)
SumField(q, f) == IF q = <<>> THEN 0 ELSE Head(q)[f] + SumField(Tail(q), f)

\* the semester of the first student subject with this code
StudentSemester(subjects, code) ==
    LET hit == SelectSeq(subjects, LAMBDA d : d.Subject_Code = code)
    IN IF hit = <<>> THEN PyNone ELSE PyStr(hit[1].Sem)

\* a mutant of ProcessBasket: only a subject with a passing grade counts as
\* completed
ProcessBasket_passed(g, student_subjects) ==
    LET codes == {student_subjects[i].Subject_Code :
                         i \in {j \in 1..Len(student_subjects) : ~IsBacklogMarker(student_subjects[j].Grade)}}
        done == [k \in 1..Len(g.subjects) |->
                    LET sub == g.subjects[k]
                        completed == sub.code \in codes
                        credits_numeric == parse_credits_normalized(PyStr(sub.credits)).v
                    IN [code |-> sub.code, name |-> sub.name, credits |-> sub.credits,
                        credits_numeric |-> credits_numeric, completed |-> completed,
                        semester |-> IF completed THEN StudentSemester(student_subjects, sub.code) ELSE PyNone,
                        earned_credits |-> IF completed THEN credits_numeric ELSE 0,
                        original_basket |-> sub.original_basket, branch |-> PyStr(sub.branch),
                        is_default_assigned |-> FALSE]]
    IN [id |-> g.id, subjects |-> done, total_subjects |-> g.total_subjects,
        completed_subjects |-> Cardinality({k \in 1..Len(done) : done[k].completed}),
        total_earned_credits |-> SumField(done, "earned_credits")]

\* a mutant of ProcessBasket: every catalogue subject counts as completed
ProcessBasket_all(g, student_subjects) ==
    LET codes == {student_subjects[i].Subject_Code : i \in 1..Len(student_subjects)}
        done == [k \in 1..Len(g.subjects) |->
                    LET sub == g.subjects[k]
                        completed == sub.code \in codes \cup {sub.code}
                        credits_numeric == parse_credits_normalized(PyStr(sub.credits)).v
                    IN [code |-> sub.code, name |-> sub.name, credits |-> sub.credits,
                        credits_numeric |-> credits_numeric, completed |-> completed,
                        semester |-> StudentSemester(student_subjects, sub.code),
                        earned_credits |-> IF completed THEN credits_numeric ELSE 0,
                        original_basket |-> sub.original_basket, branch |-> PyStr(sub.branch),
                        is_default_assigned |-> FALSE]]
    IN [id |-> g.id, subjects |-> done, total_subjects |-> g.total_subjects,
        completed_subjects |-> Cardinality({k \in 1..Len(done) : done[k].completed}),
        total_earned_credits |-> SumField(done, "earned_credits")]

\* lines 1172-1217: the subjects of one basket against the student's codes
ProcessBasket(g, student_subjects) ==
    LET codes == {student_subjects[i].Subject_Code : i \in 1..Len(student_subjects)}
        done == [k \in 1..Len(g.subjects) |->
                    LET sub == g.subjects[k]
                        completed == sub.code \in codes
                        credits_numeric == parse_credits_normalized(PyStr(sub.credits)).v
                    IN [code |-> sub.code, name |-> sub.name, credits |-> sub.credits,
                        credits_numeric |-> credits_numeric, completed |-> completed,
                        semester |-> IF completed THEN StudentSemester(student_subjects, sub.code) ELSE PyNone,
                        earned_credits |-> IF completed THEN credits_numeric ELSE 0,
                        original_basket |-> sub.original_basket, branch |-> PyStr(sub.branch),
                        is_default_assigned |-> FALSE]]
    IN [id |-> g.id, subjects |-> done, total_subjects |-> g.total_subjects,
        completed_subjects |-> Cardinality({k \in 1..Len(done) : done[k].completed}),
        total_earned_credits |-> SumField(done, "earned_credits")]

\* lines 1223-1247: the student's subjects that no processed basket lists
\* as completed
Uncategorized(groups, student_subjects) ==
    LET student_subject_codes == {student_subjects[i].Subject_Code : i \in 1..Len(student_subjects)}
        completed_subject_codes ==
            UNION {{groups[g].subjects[k].code :
                       k \in {j \in 1..Len(groups[g].subjects) : groups[g].subjects[j].completed}} :
                   g \in 1..Len(groups)}
        uncategorized_codes == student_subject_codes \ completed_subject_codes
        hit == SelectSeq(student_subjects, LAMBDA d : d.Subject_Code \in uncategorized_codes)
    IN [k \in 1..Len(hit) |->
           LET credits_numeric == parse_credits_normalized(PyStr(hit[k].Credits)).v
           IN [code |-> hit[k].Subject_Code, name |-> hit[k].Subject_Name, credits |-> hit[k].Credits,
               credits_numeric |-> credits_numeric, completed |-> TRUE,
               semester |-> PyStr(hit[k].Sem), earned_credits |-> credits_numeric,
               original_basket |-> PyStr(B("Unknown")), branch |-> PyStr(B("Unknown")),
               is_default_assigned |-> TRUE]]

\* lines 1252-1271: the uncategorized subjects join Basket V, which is
\* created when the catalogue produced none
WithUncategorized(groups, unc) ==
    IF unc = <<>> THEN groups
    ELSE IF \E g \in 1..Len(groups) : groups[g].id = B("Basket V")
    THEN LET g == CHOOSE x \in 1..Len(groups) :
                     groups[x].id = B("Basket V") /\ \A y \in 1..(x - 1) : groups[y].id # B("Basket V")
         IN [groups EXCEPT ![g] =
                [id |-> @.id, subjects |-> @.subjects \o unc,
                 total_subjects |-> @.total_subjects + Len(unc),
                 completed_subjects |-> @.completed_subjects + Len(unc),
                 total_earned_credits |-> @.total_earned_credits + SumField(unc, "earned_credits")]]
    ELSE Append(groups, [id |-> B("Basket V"), subjects |-> unc, total_subjects |-> Len(unc),
                         completed_subjects |-> Len(unc),
                         total_earned_credits |-> SumField(unc, "earned_credits")])

InDict(groups, basket_name) == \E g \in 1..Len(groups) : groups[g].id = basket_name

\* basket_dict[basket_name]: the last group with this _id
DictGroup(groups, basket_name) ==
    groups[CHOOSE g \in 1..Len(groups) :
               groups[g].id = basket_name /\ \A h \in (g + 1)..Len(groups) : groups[h].id # basket_name]

\* a mutant of Max: the first argument
Max_first(a, b) == a

Max(a, b) == IF a >= b THEN a ELSE b

\* lines 1289-1337: the progress entry of one of the five baskets
BasketEntry(groups, basket_name) ==
    LET basket_required_credits == RequirementOf(basket_name)
    IN IF InDict(groups, basket_name)
       THEN LET basket == DictGroup(groups, basket_name)
                basket_earned_credits == basket.total_earned_credits
                is_basket_completed == basket_earned_credits >= basket_required_credits
                default_count == Cardinality({k \in 1..Len(basket.subjects) :
                                                 basket.subjects[k].is_default_assigned})
            IN [subjects |-> basket.subjects,
                total_subjects |-> basket.total_subjects,
                completed_subjects |-> basket.completed_subjects,
                required_credits |-> basket_required_credits,
                earned_credits |-> basket_earned_credits,
                pending_credits |-> Max(0, basket_required_credits - basket_earned_credits),
                percentage |-> IF basket_required_credits > 0
                               THEN RoundTenths(basket_earned_credits, basket_required_credits) ELSE 0,
                status |-> IF is_basket_completed THEN "Completed"
                           ELSE IF basket_earned_credits = 0 THEN "Not Started" ELSE "Not Completed",
                is_completed |-> is_basket_completed,
                has_default_subjects |-> default_count > 0,
                default_assigned_count |-> default_count]
       ELSE [subjects |-> <<>>, total_subjects |-> 0, completed_subjects |-> 0,
             required_credits |-> basket_required_credits, earned_credits |-> 0,
             pending_credits |-> basket_required_credits, percentage |-> 0,
             status |-> "Not Started", is_completed |-> FALSE,
             has_default_subjects |-> FALSE, default_assigned_count |-> 0]

\* a mutant of OverallStats: the overall status follows the per-basket rule
OverallStats_rule(groups, unc) ==
    LET present == SelectSeq(all_baskets, LAMBDA n : InDict(groups, n))
        found == [i \in 1..Len(present) |-> DictGroup(groups, present[i])]
        total_required_credits == SeqSum(RequirementValues)
        total_earned_credits == SumField(found, "total_earned_credits")
        baskets_completed ==
            Cardinality({i \in 1..Len(present) :
                            found[i].total_earned_credits >= RequirementOf(present[i])})
    IN [total_subjects |-> SumField(found, "total_subjects"),
        completed_subjects |-> SumField(found, "completed_subjects"),
        total_required_credits |-> total_required_credits,
        total_earned_credits |-> total_earned_credits,
        baskets_completed |-> baskets_completed,
        total_baskets |-> Len(all_baskets),
        default_assigned_subjects |-> Len(unc),
        percentage |-> IF total_required_credits > 0
                       THEN RoundTenths(total_earned_credits, total_required_credits) ELSE 0,
        overall_status |-> IF total_earned_credits >= total_required_credits THEN "Completed"
                           ELSE IF total_earned_credits = 0 THEN "Not Started"
                           ELSE "Not Completed"]

\* lines 1278-1286, 1316-1322, 1340-1341
OverallStats(groups, unc) ==
    LET present == SelectSeq(all_baskets, LAMBDA n : InDict(groups, n))
        found == [i \in 1..Len(present) |-> DictGroup(groups, present[i])]
        total_required_credits == SeqSum(RequirementValues)
        total_earned_credits == SumField(found, "total_earned_credits")
        baskets_completed ==
            Cardinality({i \in 1..Len(present) :
                            found[i].total_earned_credits >= RequirementOf(present[i])})
    IN [total_subjects |-> SumField(found, "total_subjects"),
        completed_subjects |-> SumField(found, "completed_subjects"),
        total_required_credits |-> total_required_credits,
        total_earned_credits |-> total_earned_credits,
        baskets_completed |-> baskets_completed,
        total_baskets |-> Len(all_baskets),
        default_assigned_subjects |-> Len(unc),
        percentage |-> IF total_required_credits > 0
                       THEN RoundTenths(total_earned_credits, total_required_credits) ELSE 0,
        overall_status |-> IF baskets_completed = Len(all_baskets) THEN "Completed" ELSE "In Progress"]

NoStats ==
    [total_subjects |-> 0, completed_subjects |-> 0, total_required_credits |-> 0,
     total_earned_credits |-> 0, baskets_completed |-> 0, total_baskets |-> 0,
     default_assigned_subjects |-> 0, percentage |-> 0, overall_status |-> ""]

\* a mutant of find_student: any stored record is taken for the student's
find_student_any(st, registration) == st

\* cutm_collection.find_one({"Reg_No": registration}): the records the
\* lookup can return
find_student(st, registration) == SelectSeq(st, LAMBDA d : d.Reg_No = registration)

\* POST /baskettrack
baskettrack(st, cat, form) ==
    LET registration == Upper(Strip(form.registration))
        stripped == [i \in 1..Len(form.semester) |-> Strip(form.semester[i])]
        selected_semesters == SelectSeq(stripped, LAMBDA x : x # <<>>)
        basket == Strip(form.basket)
        student_info == find_student(st, registration)
        mine == SelectSeq(st, LAMBDA d : d.Reg_No = registration)
        branch == get_branch_from_reg_no(registration)
        semesters == {selected_semesters[i] : i \in 1..Len(selected_semesters)}
        all_student_subjects ==
            IF selected_semesters # <<>> /\ B("All") \notin semesters
            THEN SelectSeq(mine, LAMBDA d : d.Sem \in semesters)
            ELSE mine
        cbcs_basket_data == Aggregate(cat, branch, basket)
        processed == [g \in 1..Len(cbcs_basket_data) |->
                         ProcessBasket(cbcs_basket_data[g], all_student_subjects)]
        uncategorized_subjects == Uncategorized(processed, all_student_subjects)
        groups == WithUncategorized(processed, uncategorized_subjects)
    IN IF registration = <<>> \/ registration = B("All")
       THEN [op |-> "baskettrack", outcome |-> "form", aggregated |-> FALSE,
             basket_progress |-> EmptyDict, overall_stats |-> NoStats, department |-> <<>>]
       ELSE IF student_info = <<>>
       THEN [op |-> "baskettrack", outcome |-> "Student not found", aggregated |-> FALSE,
             basket_progress |-> EmptyDict, overall_stats |-> NoStats, department |-> <<>>]
       ELSE [op |-> "baskettrack", outcome |-> "ok", aggregated |-> TRUE,
             basket_progress |->
                 [n \in {all_baskets[i] : i \in 1..Len(all_baskets)} |-> BasketEntry(groups, n)],
             overall_stats |-> OverallStats(groups, uncategorized_subjects),
             department |-> branch]

(***************************************************************************)
(* SpecBasket: basket reconciliation over bounded stores and catalogues.   *)
(***************************************************************************)
BasketStudent == <<"2", "1", "0", "0", "0", "0", "0", "2", "0", "1">>

BasketDocs ==
    {[Reg_No |-> BasketStudent, Subject_Code |-> c[1], Grade |-> g, Name |-> <<"A", "s", "h", "a">>,
      Sem |-> c[2], Subject_Name |-> <<"M", "a", "t", "h", "s">>, Subject_Type |-> <<"T", "h", "e", "o", "r", "y">>, Credits |-> c[3]] :
        c \in {<<<<"C", "S", "1">>, <<"S", "e", "m", " ", "4">>, <<"4">>>>, <<<<"M", "A", "2">>, <<"S", "e", "m", " ", "3">>, <<"4", "8">>>>},
        g \in {<<"A">>, <<"F">>}}

BasketStores == {st \in UNION {[1..n -> BasketDocs] : n \in 0..2} : UniqueKeys(st)}

CatSubjects == {<<<<"C", "S", "1">>, <<"2", "5">>>>, <<<<"M", "A", "2">>, <<"2", "-", "-", "0", "-", "-", "1">>>>}

CatLabels == {PyStr(B("Basket 3")), PyStr(B("Basket III")), PyStr(B("Basket V")), PyStr(<<>>),
              PyStr(B("Core"))}

CatEntries ==
    {[Branch |-> B("All"), Basket |-> l, Subject_Code |-> c[1], Subject_name |-> <<"M", "a", "t", "h", "s">>,
      Credits |-> c[2]] : l \in CatLabels, c \in CatSubjects}
    \cup {[Branch |-> <<"E", "C", "E">>, Basket |-> PyStr(B("Basket I")), Subject_Code |-> <<"C", "S", "1">>,
           Subject_name |-> <<"M", "a", "t", "h", "s">>, Credits |-> <<"2", "5">>],
          [Branch |-> <<>>, Basket |-> PyStr(B("Basket I")), Subject_Code |-> <<"M", "A", "2">>,
           Subject_name |-> <<"M", "a", "t", "h", "s">>, Credits |-> <<"3">>]}

Catalogues == UNION {[1..n -> CatEntries] : n \in 0..MaxCat}

BasketForms ==
    {[registration |-> BasketStudent, semester |-> sem, basket |-> b] :
        sem \in {<<>>, <<<<"S", "e", "m", " ", "3">>>>}, b \in {<<>>, B("All"), B("Basket III")}}
    \cup {[registration |-> r, semester |-> <<>>, basket |-> <<>>] : r \in {<<>>, <<"2", "2", "0", "0", "0", "0", "0", "1", "0", "1">>}}

BasketInit ==
    /\ store \in BasketStores
    /\ cbcs \in Catalogues
    /\ req = NoOut
    /\ out = NoOut

RequestBaskettrack ==
    /\ req = NoOut
    /\ req' \in {[op |-> "baskettrack", form |-> f] : f \in BasketForms}
    /\ out' = NoOut
    /\ UNCHANGED <<store, cbcs>>

Baskettrack ==
    /\ req.op = "baskettrack"
    /\ out = NoOut
    /\ out' = baskettrack(store, cbcs, req.form)
    /\ UNCHANGED <<store, cbcs, req>>

BasketNext == RequestBaskettrack \/ Baskettrack \/ Respond

SpecBasket == BasketInit /\ [][BasketNext]_vars

\* C2: the overall total required credits is 17+12+25+58+48 = 160 and the
\* overall percentage is round(total earned / 160 * 100, 1), for every
\* student.
C2_TotalRequired160 ==
    (out.op = "baskettrack" /\ out.outcome = "ok") =>
        /\ out.overall_stats.total_required_credits = 17 + 12 + 25 + 58 + 48
        /\ out.overall_stats.percentage = RoundTenths(out.overall_stats.total_earned_credits, 160)

\* the registration and the semesters the reconciliation form selects
BasketReg == Upper(Strip(req.form.registration))

BasketSemesters == {Strip(req.form.semester[i]) : i \in 1..Len(req.form.semester)} \ {<<>>}

\* the student's stored subjects after the semester filter
FilteredSubjects ==
    SelectSeq(store, LAMBDA d :
        /\ d.Reg_No = BasketReg
        /\ (BasketSemesters # {} /\ B("All") \notin BasketSemesters) => d.Sem \in BasketSemesters)

CatalogueCodes == {cbcs[i].Subject_Code : i \in 1..Len(cbcs)}

BasketOk == out.op = "baskettrack" /\ out.outcome = "ok"

Progress(basket_name) == out.basket_progress[basket_name]

\* every filtered student subject whose code is in no catalogue entry is a
\* completed, default-assigned entry of Basket V with its parsed credits
\* earned, and Basket V's earned credits are the sum over its entries
C12_AbsentCodesJoinBasketV ==
    BasketOk =>
        /\ \A i \in 1..Len(FilteredSubjects) :
              FilteredSubjects[i].Subject_Code \notin CatalogueCodes =>
                  \E k \in 1..Len(Progress(B("Basket V")).subjects) :
                      LET e == Progress(B("Basket V")).subjects[k]
                      IN /\ e.code = FilteredSubjects[i].Subject_Code
                         /\ e.is_default_assigned /\ e.completed
                         /\ e.earned_credits = parse_credits_normalized(PyStr(FilteredSubjects[i].Credits)).v
        /\ Progress(B("Basket V")).earned_credits = SumField(Progress(B("Basket V")).subjects, "earned_credits")

\* no entry whose code is in the catalogue is flagged is_default_assigned
C12_CatalogueCodesNeverDefault ==
    BasketOk =>
        \A n \in DOMAIN out.basket_progress :
            \A k \in 1..Len(Progress(n).subjects) :
                Progress(n).subjects[k].is_default_assigned =>
                    Progress(n).subjects[k].code \notin CatalogueCodes

\* C12: a filtered student subject whose code is in no catalogue entry is
\* appended to Basket V (created when missing) as a completed,
\* default-assigned entry and its parsed credits are added to Basket V's
\* earned credits; and no subject whose code is in the catalogue is ever
\* flagged is_default_assigned.
C12_Uncategorized == C12_AbsentCodesJoinBasketV /\ C12_CatalogueCodesNeverDefault

\* the status the three-way rule gives for earned and required credits
StatusRule(earned, required) ==
    IF earned >= required THEN "Completed"
    ELSE IF earned = 0 /\ required > 0 THEN "Not Started"
    ELSE "Not Completed"

FixedRequirement(n) ==
    CASE n = B("Basket I") -> 17
      [] n = B("Basket II") -> 12
      [] n = B("Basket III") -> 25
      [] n = B("Basket IV") -> 58
      [] n = B("Basket V") -> 48

\* C13: the result map has exactly the five canonical baskets as keys, and
\* for each of them required is the fixed requirement, pending is
\* max(0, required - earned), and status is "Completed" iff earned >=
\* required, "Not Started" iff earned = 0 (and required > 0), otherwise
\* "Not Completed".
C13_BasketEntries ==
    BasketOk =>
        /\ DOMAIN out.basket_progress =
              {B("Basket I"), B("Basket II"), B("Basket III"), B("Basket IV"), B("Basket V")}
        /\ \A n \in DOMAIN out.basket_progress :
              LET e == Progress(n)
              IN /\ e.required_credits = FixedRequirement(n)
                 /\ e.pending_credits =
                        (IF e.required_credits - e.earned_credits > 0
                         THEN e.required_credits - e.earned_credits ELSE 0)
                 /\ e.status = StatusRule(e.earned_credits, e.required_credits)
                 /\ e.is_completed <=> (e.status = "Completed")

\* a reconciliation reported one basket completed, one started but not
\* completed, and one the catalogue had no data for
C13_Witness ==
    /\ BasketOk
    /\ Progress(B("Basket III")).status = "Completed"
    /\ Progress(B("Basket III")).earned_credits = 25
    /\ Progress(B("Basket V")).status = "Not Completed"
    /\ Progress(B("Basket V")).pending_credits = 45
    /\ Progress(B("Basket I")).status = "Not Started"
    /\ Progress(B("Basket I")).subjects = <<>>

\* C14: when the student exists and no grade record remains after the
\* semester filter, every one of the five baskets has status "Not Started",
\* percentage 0, earned 0 and pending equal to its requirement, whatever the
\* catalogue holds.
C14_NothingCompleted ==
    (BasketOk /\ FilteredSubjects = <<>>) =>
        \A n \in DOMAIN out.basket_progress :
            /\ Progress(n).status = "Not Started"
            /\ Progress(n).percentage = 0
            /\ Progress(n).earned_credits = 0
            /\ Progress(n).pending_credits = FixedRequirement(n)
            /\ Progress(n).completed_subjects = 0

\* the semester filter left the student no record while the catalogue
\* listed two subjects, one of them in Basket III
C14_Witness ==
    /\ BasketOk
    /\ FilteredSubjects = <<>>
    /\ Len(cbcs) = 2
    /\ Progress(B("Basket III")).total_subjects >= 1
    /\ Progress(B("Basket III")).subjects[1].credits_numeric = 25

\* the canonical bucket of a label, as the normalization rule states it
CanonicalLabel(label) ==
    CASE label \in {PyStr(B("Basket 1")), PyStr(B("Basket I"))} -> B("Basket I")
      [] label \in {PyStr(B("Basket 2")), PyStr(B("Basket II"))} -> B("Basket II")
      [] label \in {PyStr(B("Basket 3")), PyStr(B("Basket III"))} -> B("Basket III")
      [] label \in {PyStr(B("Basket 4")), PyStr(B("Basket IV"))} -> B("Basket IV")
      [] label \in {PyStr(B("Basket 5")), PyStr(B("Basket V"))} -> B("Basket V")
      [] label \in {PyStr(<<>>), PyNone, PyStr(B("null"))} -> B("Basket V")
      [] OTHER -> label.s

NormalizationLabels ==
    {PyStr(B(n)) : n \in {"Basket 1", "Basket 2", "Basket 3", "Basket 4", "Basket 5", "Basket I",
                          "Basket II", "Basket III", "Basket IV", "Basket V", "null", "Core",
                          "Unknown"}}
    \cup {PyStr(<<>>), PyNone}

\* the cross-branch catalogue entries labelled "Basket 3" or "Basket III"
\* that the catalogue query fetches under the form's basket filter
BasketThreeEntries ==
    SelectSeq(cbcs, LAMBDA e :
        /\ e.Branch = B("All")
        /\ e.Basket \in {PyStr(B("Basket 3")), PyStr(B("Basket III"))}
        /\ Strip(req.form.basket) \notin {<<>>, B("All")} => e.Basket = PyStr(Strip(req.form.basket)))

StudentCodes == {FilteredSubjects[i].Subject_Code : i \in 1..Len(FilteredSubjects)}

RECURSIVE EarnedOf(_)
EarnedOf(entries) ==
    IF entries = <<>> THEN 0
    ELSE (IF Head(entries).Subject_Code \in StudentCodes
          THEN parse_credits_normalized(PyStr(Head(entries).Credits)).v ELSE 0)
         + EarnedOf(Tail(entries))

C16_StudentNotFound ==
    (out.op = "baskettrack" /\ BasketReg # <<>>) =>
        /\ (\A i \in 1..Len(store) : store[i].Reg_No # BasketReg) =>
              /\ out.outcome = "Student not found"
              /\ ~out.aggregated
              /\ out.basket_progress = EmptyDict
              /\ out.overall_stats = NoStats
        /\ (\E i \in 1..Len(store) : store[i].Reg_No = BasketReg) => out.outcome = "ok"

\* an unknown registration was looked up in a non-empty store with a
\* non-empty catalogue
C16_Witness ==
    /\ out.op = "baskettrack"
    /\ out.outcome = "Student not found"
    /\ Len(store) >= 1
    /\ Len(cbcs) >= 1
    /\ cbcs[1].Branch = B("All")

(***************************************************************************)
(* SpecDecode: the registration decoders on bounded registration ids.      *)
(***************************************************************************)
DecodePrefixes == {<<"2", "1", "0", "0", "0", "0", "0">>, <<"2", "2", "A", "0", "1", "5", "6">>}

DecodeCodes == {"0", "1", "2", "3", "4", "5", "6", "7", "8", "9", "A", " "}

DecodeSuffixes == {<<>>, <<"0">>, <<"0", "1">>, <<"9", "X">>, <<"2", "1", "3">>}

DecodeInputs ==
    {[op |-> "decode", reg_no |-> p \o <<c>> \o t] :
        p \in DecodePrefixes, c \in DecodeCodes, t \in DecodeSuffixes}

DecodeInit ==
    /\ store = <<>>
    /\ cbcs = <<>>
    /\ req \in DecodeInputs
    /\ out = NoOut

Decode ==
    /\ req.op = "decode"
    /\ out = NoOut
    /\ out' = [op |-> "decode",
               branch |-> get_branch_from_reg_no(req.reg_no),
               year |-> get_year_from_reg_no(req.reg_no)]
    /\ UNCHANGED <<store, cbcs, req>>

DecodeNext == Decode

SpecDecode == DecodeInit /\ [][DecodeNext]_vars

\* the branch table, by code character
BranchOfCode(c) ==
    CASE c = "1" -> BranchName("Civil Engineering")
      [] c = "2" -> BranchName("Computer Science Engineering")
      [] c = "3" -> BranchName("Electronics & Communication Engineering")
      [] c = "5" -> BranchName("Electrical & Electronics Engineering")
      [] c = "6" -> BranchName("Mechanical Engineering")
      [] OTHER -> BranchName("Unknown Branch")

\* C17: for a registration id of length >= 10 the decoded branch is the
\* table entry of the character at 0-based index 7, 'Unknown Branch' when
\* the character has no entry; it is a function of that character alone.
C17_BranchByIndexSeven ==
    (out.op = "decode" /\ Len(req.reg_no) >= 10) =>
        out.branch = BranchOfCode(req.reg_no[8])

\* an id whose characters around index 7 are themselves branch codes
\* decodes by the character at index 7
C17_Witness ==
    /\ out.op = "decode"
    /\ req.reg_no = <<"2", "2", "A", "0", "1", "5", "6", "2", "2", "1", "3">>
    /\ out.branch = BranchName("Computer Science Engineering")

(***************************************************************************)
(* The result page, home, and calculate_cgpa.                              *)
(***************************************************************************)
\* re.fullmatch of a pattern made of literal characters, "." and postfix
\* "*", letter case ignored: the regex f"^{name}$" with option i
RECURSIVE PatternMatch(_, _)
PatternMatch(p, t) ==
    IF p = <<>> THEN t = <<>>
    ELSE LET first == t # <<>> /\ (p[1] = "." \/ LowerChar(p[1]) = LowerChar(t[1]))
         IN IF Len(p) >= 2 /\ p[2] = "*"
            THEN \/ PatternMatch(SubSeq(p, 3, Len(p)), t)
                 \/ first /\ PatternMatch(p, Tail(t))
            ELSE first /\ PatternMatch(Tail(p), Tail(t))

\* a mutant of StudentMatch: the registration alone selects
StudentMatch_reg(doc, registration, name) == doc.Reg_No = registration

\* {"$or": [{"Reg_No": registration},
\*          {"Name": {"$regex": f"^{name}$", "$options": "i"}}]}
StudentMatch(doc, registration, name) ==
    \/ doc.Reg_No = registration
    \/ PatternMatch(name, doc.Name)

\* the projection of a record to the fields the averages read
AvgRow(doc) == [Credits |-> PyStr(doc.Credits), Grade |-> PyStr(doc.Grade)]

AvgRows(docs) == [i \in 1..Len(docs) |-> AvgRow(docs[i])]

\* the cursor of calculate_cgpa
CgpaRows(st, registration, name) ==
    SelectSeq(st, LAMBDA d : StudentMatch(d, registration, name))

calculate_cgpa(st, registration, name) == AvgLoop(AvgRows(CgpaRows(st, registration, name)), 0, 0)

\* the query of one selected semester (lines 212-226)
SemesterRows(st, registration, name, semester) ==
    SelectSeq(st, LAMBDA d : StudentMatch(d, registration, name) /\ d.Sem = semester)

\* lines 243-252: the credits of the registration's records, a record whose
\* credits do not parse being skipped
RECURSIVE AllCredits(_)
AllCredits(docs) ==
    IF docs = <<>> THEN 0
    ELSE LET parts == NonBlankParts(Head(docs).Credits)
             csum == FloatSum(parts)
         IN (IF parts # <<>> /\ csum.ok THEN csum.v ELSE 0) + AllCredits(Tail(docs))

HomeError(text) ==
    [op |-> "home", outcome |-> text, semester_results |-> EmptyDict, result |-> <<>>,
     count |-> 0, cgpa_rows |-> <<>>, cgpa |-> [t |-> "none"], total_all_semester_credits |-> 0]

RECURSIVE Concat(_)
Concat(seqs) == IF seqs = <<>> THEN <<>> ELSE Head(seqs) \o Concat(Tail(seqs))

\* POST /
home(st, form) ==
    LET name == Strip(form.name)
        registration == Upper(Strip(form.registration))
        selected_semesters == form.semester
        stripped == [i \in 1..Len(selected_semesters) |-> Strip(selected_semesters[i])]
        data == [i \in 1..Len(stripped) |-> SemesterRows(st, registration, name, stripped[i])]
        sgpa == [i \in 1..Len(stripped) |-> calculate_sgpa(AvgRows(data[i]))]
        present == {i \in 1..Len(stripped) : data[i] # <<>>}
        semester_results ==
            [s \in {stripped[i] : i \in present} |->
                LET i == CHOOSE j \in present : stripped[j] = s
                IN [data |-> data[i], count |-> Len(data[i]), sgpa |-> sgpa[i].avg,
                    total_credits |-> sgpa[i].total_credits]]
        results == Concat(data)
        cgpa_rows == IF registration # <<>> THEN CgpaRows(st, registration, name) ELSE <<>>
        cgpa == calculate_cgpa(st, registration, name)
        raised == \/ \E i \in present : sgpa[i].raised
                  \/ registration # <<>> /\ cgpa.raised
    IN IF registration = <<>> /\ name = <<>> THEN HomeError("Please enter registration or name.")
       ELSE IF selected_semesters = <<>> THEN HomeError("Please select at least one semester.")
       ELSE IF raised THEN HomeError("exception")
       ELSE IF Len(selected_semesters) = 1 /\ selected_semesters[1] \notin DOMAIN semester_results
       THEN HomeError("No data found")
       ELSE [op |-> "home",
             outcome |-> IF Len(selected_semesters) = 1 THEN "display" ELSE "display_multi",
             semester_results |-> semester_results,
             result |-> IF Len(selected_semesters) = 1 THEN data[1] ELSE results,
             count |-> IF Len(selected_semesters) = 1 THEN Len(data[1]) ELSE Len(results),
             cgpa_rows |-> cgpa_rows,
             cgpa |-> IF registration # <<>> THEN [t |-> "num", avg |-> cgpa.avg] ELSE [t |-> "none"],
             total_all_semester_credits |->
                 IF registration # <<>>
                 THEN AllCredits(SelectSeq(st, LAMBDA d : d.Reg_No = registration)) ELSE 0]

(***************************************************************************)
(* SpecHome: result-page requests over bounded stores.                     *)
(***************************************************************************)
MaxHomeDocs == 2

HomeStudents ==
    {<<S("2100000201"), <<"A", "s", "h", "a">>>>, <<S("2200000101"), <<>>>>,
     <<S("2200000101"), <<"A", "S", "H", "A">>>>, <<S("2200000101"), <<"R", "a", "v", "i">>>>}

HomeDocs ==
    {[Reg_No |-> p[1], Subject_Code |-> c[1], Grade |-> g, Name |-> p[2], Sem |-> c[2],
      Subject_Name |-> <<"M", "a", "t", "h", "s">>, Subject_Type |-> <<"T", "h", "e", "o", "r", "y">>,
      Credits |-> <<"3">>] :
        p \in HomeStudents,
        c \in {<<<<"C", "S", "1">>, <<"S", "e", "m", " ", "3">>>>, <<<<"M", "A", "2">>, <<"S", "e", "m", " ", "4">>>>},
        g \in {<<"A">>, <<"I">>}}

HomeStores == {st \in UNION {[1..n -> HomeDocs] : n \in 0..MaxHomeDocs} : UniqueKeys(st)}

HomeNames == {<<>>, <<"a", "s", "h", "a", " ">>, <<"R", "a", "v", "i">>, <<"a", ".", "h", "a">>, <<".", "*">>}

HomeRegs == {<<>>, S(" 2200000101 "), S("2100000201")}

HomeSemesters ==
    {<<>>, <<<<"S", "e", "m", " ", "3">>>>, <<<<" ", "S", "e", "m", " ", "3">>, <<"S", "e", "m", " ", "4">>>>}

HomeInit ==
    /\ store \in HomeStores
    /\ cbcs = <<>>
    /\ req = NoOut
    /\ out = NoOut

RequestHome ==
    /\ req = NoOut
    /\ req' \in {[op |-> "home", form |-> f] :
                   f \in [name : HomeNames, registration : HomeRegs, semester : HomeSemesters]}
    /\ out' = NoOut
    /\ UNCHANGED <<store, cbcs>>

Home ==
    /\ req.op = "home"
    /\ out = NoOut
    /\ out' = home(store, req.form)
    /\ UNCHANGED <<store, cbcs, req>>

HomeNext == RequestHome \/ Home \/ Respond

SpecHome == HomeInit /\ [][HomeNext]_vars

HomeName == Strip(req.form.name)

HomeReg == Upper(Strip(req.form.registration))

HomeShown == out.op = "home" /\ out.outcome \in {"display", "display_multi"}

\* a record of the given registration, or of the given name in any letter
\* case
ByStudent(d) ==
    \/ HomeReg # <<>> /\ d.Reg_No = HomeReg
    \/ HomeName # <<>> /\ Lower(d.Name) = Lower(HomeName)

\* C18: the rows of the CGPA and of each semester's SGPA are exactly the
\* records whose registration is the given one or whose name is the given
\* name in any letter case; with an empty name they are exactly the
\* registration's records, with both given the union of the two matches.
C18_ByStudentRows ==
    HomeShown =>
        /\ HomeReg # <<>> => out.cgpa_rows = SelectSeq(store, ByStudent)
        /\ \A s \in DOMAIN out.semester_results :
              out.semester_results[s].data = SelectSeq(store, LAMBDA d : ByStudent(d) /\ d.Sem = s)

(***************************************************************************)
(* SpecRace: two ingests of one row each, running concurrently; find_one   *)
(* and update_one / insert_one are separate steps (lines 379-402).         *)
(***************************************************************************)
Procs == {1, 2}

RaceGrades == {<<"A">>, <<"B">>, <<"f", " ">>}

RaceRow(g) ==
    [Reg_No |-> PyStr(S("2100000201")), Subject_Code |-> PyStr(S("cs1 ")), Grade |-> PyStr(g),
     Name |-> PyStr(S("Asha")), Sem |-> PyStr(S("3")), Subject_Name |-> PyStr(S("Maths")),
     Subject_Type |-> PyStr(S("Theory")), Credits |-> PyStr(S("2+0+1"))]

RaceStores == {<<>>} \cup {<<RowFields(RaceRow(g))>> : g \in {<<"F">>, <<"A">>, <<" ">>}}

RaceInit ==
    /\ store \in RaceStores
    /\ cbcs = <<>>
    /\ req \in {[op |-> "race", rows |-> <<RaceRow(g1), RaceRow(g2)>>] : g1, g2 \in RaceGrades}
    /\ out = [op |-> "race", pc |-> <<"find_one", "find_one">>,
              existing_record |-> <<PyNone, PyNone>>,
              updated_count |-> <<0, 0>>, inserted_count |-> <<0, 0>>]

\* a mutant of ExistingGrade: the grade is read again when the update is
\* decided
ExistingGrade_fresh(p, st, f) == st[find_one(st, f.Reg_No, f.Subject_Code)].Grade

\* existing_record.get("Grade"): the grade find_one returned to ingest p
ExistingGrade(p, st, f) == out.existing_record[p].s

\* lines 379-382: ingest p looks its row's record up
FindOne(p) ==
    /\ out.pc[p] = "find_one"
    /\ LET f == RowFields(req.rows[p])
           i == find_one(store, f.Reg_No, f.Subject_Code)
       IN out' = [out EXCEPT !.pc[p] = "write",
                             !.existing_record[p] = IF i = 0 THEN PyNone ELSE PyStr(store[i].Grade)]
    /\ UNCHANGED <<store, cbcs, req>>

\* lines 384-402: ingest p acts on the record it was returned: update_one
\* when the grade it read is a backlog marker, insert_one when it found none
Write(p) ==
    /\ out.pc[p] = "write"
    /\ LET f == RowFields(req.rows[p])
           i == find_one(store, f.Reg_No, f.Subject_Code)
       IN IF out.existing_record[p] # PyNone
          THEN IF IsBacklogMarker(ExistingGrade(p, store, f))
               THEN /\ store' = IF i = 0 THEN store ELSE [store EXCEPT ![i].Grade = f.Grade]
                    /\ out' = [out EXCEPT !.pc[p] = "done", !.updated_count[p] = @ + 1]
               ELSE /\ store' = store
                    /\ out' = [out EXCEPT !.pc[p] = "done"]
          ELSE /\ store' = Append(store, f)
               /\ out' = [out EXCEPT !.pc[p] = "done", !.inserted_count[p] = @ + 1]
    /\ UNCHANGED <<cbcs, req>>

RaceNext == \E p \in Procs : FindOne(p) \/ Write(p)

SpecRace == RaceInit /\ [][RaceNext]_vars

Other(p) == CHOOSE q \in Procs : q # p

\* C20: update-if-backlog is a check-then-act without lock: an ingest
\* updates exactly when the grade it read was a backlog marker, whatever the
\* record holds at the time of the write; a passing grade is replaced only
\* by an ingest that read the record before the other ingest wrote that
\* grade (its read is stale), which no sequential execution contains.
C20_CheckThenAct ==
    [][out.op = "race" =>
        /\ \A p \in Procs :
              (out.pc[p] = "write" /\ out'.pc[p] = "done" /\ out.existing_record[p] # PyNone) =>
                  (out'.updated_count[p] = 1 <=> out.existing_record[p].s \in Markers)
        /\ \A i \in 1..Len(store) :
              (store[i].Grade \notin Markers /\ store'[i].Grade # store[i].Grade) =>
                  \E p \in Procs :
                      /\ out.pc[p] = "write" /\ out'.pc[p] = "done"
                      /\ out.existing_record[p] # PyNone
                      /\ out.existing_record[p].s \in Markers
                      /\ out.existing_record[p].s # store[i].Grade
                      /\ out.pc[Other(p)] = "done"
                      /\ out.updated_count[Other(p)] = 1
                      /\ store[i].Grade = RowFields(req.rows[Other(p)]).Grade]_vars

\* both ingests read the stored "F" and both updated: the "A" written by the
\* first was replaced by the "B" of the second
C20_Witness ==
    /\ out.op = "race"
    /\ out.pc = <<"done", "done">>
    /\ out.existing_record = <<PyStr(<<"F">>), PyStr(<<"F">>)>>
    /\ out.updated_count = <<1, 1>>
    /\ req.rows[1].Grade = PyStr(<<"A">>)
    /\ req.rows[2].Grade = PyStr(<<"B">>)
    /\ Len(store) = 1
    /\ store[1].Grade = <<"B">>

(***************************************************************************)
(* Manual grade update, view_data, and the portal as a whole.              *)
(***************************************************************************)
\* a mutant of UpdateOneGrade: the matched record is removed
UpdateOneGrade_drop(st, reg_no, subject_code, grade) ==
    LET i == find_one(st, reg_no, subject_code)
    IN IF i = 0 THEN st ELSE SubSeq(st, 1, i - 1) \o SubSeq(st, i + 1, Len(st))

\* update_one({"Reg_No": reg_no, "Subject_Code": subject_code},
\*            {"$set": {"Grade": grade}}): the first matching record
UpdateOneGrade(st, reg_no, subject_code, grade) ==
    LET i == find_one(st, reg_no, subject_code)
    IN IF i = 0 THEN st ELSE [st EXCEPT ![i].Grade = grade]

\* the grades the manual update accepts (line 743)
ManualGrades ==
    {<<"O">>, <<"E">>, <<"A">>, <<"B">>, <<"C">>, <<"D">>, <<"F">>, <<"M">>, <<"S">>, <<"I">>, <<"R">>}

\* the student's rows, sorted by (Sem, Subject_Code), and their credits
StudentView(st, registration) ==
    LET student_data == SortDocs(SelectSeq(st, LAMBDA d : d.Reg_No = registration))
    IN [rows |-> student_data, total_credits |-> AllCredits(student_data)]

ViewResult(st, rows, registration, message, error, total_credits) ==
    [op |-> "view", st |-> st, rows |-> rows, registration |-> registration,
     message |-> message, error |-> error, total_credits |-> total_credits]

\* POST /view_data: the store after the request and the page rendered
view_data(st, form) ==
    IF form.kind = "search"
    THEN LET registration == Upper(Strip(form.search_registration))
             v == StudentView(st, registration)
         IN IF registration = <<>>
            THEN ViewResult(st, <<>>, registration, "", "Please enter a registration number.", 0)
            ELSE IF v.rows = <<>>
            THEN ViewResult(st, <<>>, registration, "", "No records found for registration number", 0)
            ELSE ViewResult(st, v.rows, registration, "", "", v.total_credits)
    ELSE LET reg_no == Upper(Strip(form.reg_no))
             subject_code == Upper(Strip(form.subject_code))
             new_grade == Upper(Strip(form.new_grade))
             i == find_one(st, reg_no, subject_code)
             modified == i # 0 /\ st[i].Grade # new_grade
             after == UpdateOneGrade(st, reg_no, subject_code, new_grade)
             v == StudentView(after, reg_no)
         IN IF reg_no = <<>> \/ subject_code = <<>> \/ new_grade = <<>>
            THEN ViewResult(st, <<>>, <<>>, "", "All fields are required for update.", 0)
            ELSE IF new_grade \notin ManualGrades
            THEN ViewResult(st, <<>>, <<>>, "", "Invalid grade", 0)
            ELSE IF modified
            THEN ViewResult(after, v.rows, reg_no, "Grade updated successfully", "", v.total_credits)
            ELSE ViewResult(after, <<>>, <<>>, "",
                            "No record found to update or grade was already the same.", 0)

(***************************************************************************)
(* SpecPortal: ingests, manual grade updates and queries in any order,     *)
(* one request at a time, from the empty store.                            *)
(***************************************************************************)
PortalRows ==
    {[Reg_No |-> PyStr(r), Subject_Code |-> PyStr(S("cs1 ")), Grade |-> PyStr(g),
      Name |-> PyStr(S("Asha")), Sem |-> PyStr(S("3")), Subject_Name |-> PyStr(S("Maths")),
      Subject_Type |-> PyStr(S("Theory")), Credits |-> PyStr(S("2+0+1"))] :
        r \in {S("2100000201"), S(" 2200000101 ")},
        g \in {S("A"), S("f "), S(" "), <<"x">>}}

PortalUploads == UNION {[1..n -> PortalRows] : n \in 1..MaxRows}

ViewForms ==
    {[kind |-> "search", search_registration |-> r] : r \in {<<>>, S("2100000201")}}
    \cup {[kind |-> "update", reg_no |-> S("2100000201"), subject_code |-> S("cs1 "), new_grade |-> g] :
             g \in {<<"b">>, S("f "), <<"x">>, <<>>}}

PortalQueries ==
    {[op |-> "home", form |-> [name |-> <<>>, registration |-> S("2100000201"),
                               semester |-> <<S("Sem 3")>>]],
     [op |-> "backlog", form |-> [registration |-> <<>>, subject_code |-> S("cs1 "),
                                  branch |-> <<>>, year |-> <<>>]],
     [op |-> "batch", form |-> [branch |-> <<"C", "S", "E">>, batch |-> <<>>]],
     [op |-> "baskettrack", form |-> [registration |-> S("2100000201"), semester |-> <<>>,
                                      basket |-> <<>>]]}

PortalRequests ==
    {[op |-> "ingest", rows |-> rows] : rows \in PortalUploads}
    \cup {[op |-> "view", form |-> f] : f \in ViewForms}
    \cup PortalQueries

RequestPortal ==
    /\ req = NoOut
    /\ req' \in PortalRequests
    /\ out' = NoOut
    /\ UNCHANGED <<store, cbcs>>

ViewData ==
    /\ req.op = "view"
    /\ out = NoOut
    /\ LET r == view_data(store, req.form)
       IN /\ store' = r.st
          /\ out' = [op |-> "view", rows |-> r.rows, registration |-> r.registration,
                     message |-> r.message, error |-> r.error, total_credits |-> r.total_credits]
    /\ UNCHANGED <<cbcs, req>>

PortalNext ==
    RequestPortal \/ UpdateData \/ ViewData \/ Home \/ Backlog \/ Batch \/ Baskettrack \/ Respond

SpecPortal == Init /\ [][PortalNext]_vars

\* the record with every field but Grade
Frame(d) == [d EXCEPT !.Grade = <<>>]

\* C21: no step of an ingest, a manual grade update or a query removes a
\* grade record: every record stays at its place with all its fields but
\* Grade, a query changes nothing, a manual update changes at most the Grade
\* of the one record its key matches, and only an ingest appends records.
C21_NoRecordRemoved ==
    [][/\ Len(store') >= Len(store)
       /\ \A i \in 1..Len(store) : Frame(store'[i]) = Frame(store[i])
       /\ {<<store[i].Reg_No, store[i].Subject_Code>> : i \in 1..Len(store)}
             \subseteq {<<store'[i].Reg_No, store'[i].Subject_Code>> : i \in 1..Len(store')}
       /\ req.op \notin {"ingest", "view"} => store' = store
       /\ req.op = "view" =>
             /\ Len(store') = Len(store)
             /\ \A i \in 1..Len(store) :
                   store'[i] # store[i] =>
                       /\ store[i].Reg_No = Upper(Strip(req.form.reg_no))
                       /\ store[i].Subject_Code = Upper(Strip(req.form.subject_code))
                       /\ store'[i].Grade = Upper(Strip(req.form.new_grade))
                       /\ \A j \in 1..Len(store) : j # i => store'[j] = store[j]]_vars

\* a manual update changed the grade of one of two stored records to "B"
C21_Witness ==
    /\ req.op = "view" /\ out.op = "view"
    /\ out.message = "Grade updated successfully"
    /\ Len(store) = 2
    /\ \E i \in 1..2 : store[i].Reg_No = S("2100000201") /\ store[i].Grade = <<"B">>
    /\ out.rows[1].Grade = <<"B">>

\* C23: every stored grade is one of the letters O, E, A, B, C, D, F, M,
\* S, I, R, after any sequence of ingests and manual grade updates.
C23_GradesInClosedSet ==
    \A i \in 1..Len(store) :
        store[i].Grade \in {<<g>> : g \in {"O", "E", "A", "B", "C", "D", "F", "M", "S", "I", "R"}}

(***************************************************************************)
(* SpecOverall: reconciliation against a catalogue with one subject in     *)
(* each of the five baskets, so that every number of completed baskets     *)
(* occurs.                                                                 *)
(***************************************************************************)
OverallSubjects ==
    << [code |-> <<"S", "1">>, label |-> PyStr(B("Basket 1")), full |-> <<"1", "7">>],
       [code |-> <<"S", "2">>, label |-> PyStr(B("Basket II")), full |-> <<"1", "2">>],
       [code |-> <<"S", "3">>, label |-> PyStr(B("Basket 3")), full |-> <<"2", "5">>],
       [code |-> <<"S", "4">>, label |-> PyStr(B("Basket IV")), full |-> <<"5", "8">>],
       [code |-> <<"S", "5">>, label |-> PyStr(<<>>), full |-> <<"4", "8">>] >>

\* each subject carries either its basket's full requirement or 4 credits
OverallCatalogues ==
    {[k \in 1..Len(OverallSubjects) |->
         [Branch |-> B("All"), Basket |-> OverallSubjects[k].label,
          Subject_Code |-> OverallSubjects[k].code, Subject_name |-> <<"M", "a", "t", "h", "s">>,
          Credits |-> IF k \in fullOnes THEN OverallSubjects[k].full ELSE <<"4">>]] :
        fullOnes \in SUBSET (1..Len(OverallSubjects))}

OverallDoc(k) ==
    [Reg_No |-> BasketStudent, Subject_Code |-> OverallSubjects[k].code, Grade |-> <<"A">>,
     Name |-> <<"A", "s", "h", "a">>, Sem |-> <<"S", "e", "m", " ", "3">>,
     Subject_Name |-> <<"M", "a", "t", "h", "s">>, Subject_Type |-> <<"T", "h", "e", "o", "r", "y">>,
     Credits |-> <<"4">>]

RECURSIVE DocsOf(_, _)
DocsOf(k, chosen) ==
    IF k > Len(OverallSubjects) THEN <<>>
    ELSE (IF k \in chosen THEN <<OverallDoc(k)>> ELSE <<>>) \o DocsOf(k + 1, chosen)

OverallStores == {DocsOf(1, chosen) : chosen \in SUBSET (1..Len(OverallSubjects))}

OverallInit ==
    /\ store \in OverallStores
    /\ cbcs \in OverallCatalogues
    /\ req = NoOut
    /\ out = NoOut

SpecOverall == OverallInit /\ [][BasketNext]_vars

BasketsDone == {n \in DOMAIN out.basket_progress : Progress(n).earned_credits >= FixedRequirement(n)}

\* C24 as stated: the overall status follows the per-basket rule on the
\* totals ("Completed" if total earned >= total required, "Not Started" if
\* total earned is 0, otherwise "Not Completed"), and baskets_completed is
\* the number of the five baskets with earned >= required.
C24_StatusByTotals ==
    BasketOk =>
        /\ out.overall_stats.overall_status =
              StatusRule(out.overall_stats.total_earned_credits,
                         out.overall_stats.total_required_credits)
        /\ out.overall_stats.baskets_completed = Cardinality(BasketsDone)

\* C24 amended: the overall status is "Completed" when all five baskets are
\* completed and "In Progress" otherwise, whatever the totals; and
\* baskets_completed is the number of the five baskets with earned >=
\* required.
C24_StatusByBaskets ==
    BasketOk =>
        /\ out.overall_stats.baskets_completed = Cardinality(BasketsDone)
        /\ out.overall_stats.total_baskets = 5
        /\ out.overall_stats.overall_status =
              (IF Cardinality(BasketsDone) = 5 THEN "Completed" ELSE "In Progress")
        /\ out.overall_stats.total_earned_credits =
              SumField([i \in 1..Len(all_baskets) |-> Progress(all_baskets[i])], "earned_credits")

\* all five baskets are completed, each by exactly its requirement, and the
\* overall status is "Completed"
C24_Witness ==
    /\ BasketOk
    /\ out.overall_stats.baskets_completed = 5
    /\ out.overall_stats.total_earned_credits = 160
    /\ out.overall_stats.overall_status = "Completed"

(***************************************************************************)
(* Curriculum management: basket_add, basket_edit, basket_delete and       *)
(* basket_import on the catalogue collection.  A catalogue entry carries   *)
(* its ObjectId in the field id; 0 stands for a string that is not a       *)
(* valid ObjectId.                                                         *)
(***************************************************************************)
MaxCatalogue == 2
MaxCsvRows == 2

\* insert_one / insert_many give an entry an id no entry of the collection has
FreshId(cat) == CHOOSE n \in 1..(Len(cat) + 1) : \A i \in 1..Len(cat) : cat[i].id # n

\* lines 842-848 and 881-887: the form fields, trimmed, the code upper-cased
SubjectData(form) ==
    [Branch |-> Strip(form.branch), Basket |-> PyStr(Strip(form.basket)),
     Subject_Code |-> Upper(Strip(form.subject_code)),
     Subject_name |-> Strip(form.subject_name), Credits |-> Strip(form.credits)]

WithId(n, d) ==
    [id |-> n, Branch |-> d.Branch, Basket |-> d.Basket, Subject_Code |-> d.Subject_Code,
     Subject_name |-> d.Subject_name, Credits |-> d.Credits]

\* not all([Branch, Subject Code, Subject_name])
LacksRequired(d) == d.Branch = <<>> \/ d.Subject_Code = <<>> \/ d.Subject_name = <<>>

basket_add(cat, form) ==
    LET subject_data == SubjectData(form)
    IN IF LacksRequired(subject_data) THEN [cat |-> cat, outcome |-> "required"]
       ELSE IF \E i \in 1..Len(cat) : cat[i].Subject_Code = subject_data.Subject_Code
            THEN [cat |-> cat, outcome |-> "exists"]
       ELSE [cat |-> Append(cat, WithId(FreshId(cat), subject_data)), outcome |-> "added"]

basket_edit(cat, subject_id, form) ==
    LET update_data == SubjectData(form)
    IN IF subject_id = 0 THEN [cat |-> cat, outcome |-> "invalid id"]
       ELSE IF LacksRequired(update_data) THEN [cat |-> cat, outcome |-> "required"]
       ELSE IF \E i \in 1..Len(cat) :
                   cat[i].Subject_Code = update_data.Subject_Code /\ cat[i].id # subject_id
            THEN [cat |-> cat, outcome |-> "exists"]
       ELSE IF \A i \in 1..Len(cat) : cat[i].id # subject_id
            THEN [cat |-> cat, outcome |-> "not found"]
       ELSE [cat |-> [i \in 1..Len(cat) |->
                         IF cat[i].id = subject_id THEN WithId(subject_id, update_data) ELSE cat[i]],
             outcome |-> "updated"]

basket_delete(cat, subject_id) ==
    IF subject_id = 0 THEN [cat |-> cat, outcome |-> "invalid id"]
    ELSE IF \A i \in 1..Len(cat) : cat[i].id # subject_id THEN [cat |-> cat, outcome |-> "not found"]
    ELSE [cat |-> SelectSeq(cat, LAMBDA e : e.id # subject_id), outcome |-> "deleted"]

\* lines 960-974: the rows of the file that have a subject code, normalized
RECURSIVE CsvRecords(_)
CsvRecords(rows) ==
    IF rows = <<>> THEN <<>>
    ELSE LET row == Head(rows)
             record == [Branch |-> Strip(row.Branch), Basket |-> PyStr(Strip(row.Basket)),
                        Subject_Code |-> Upper(Strip(row.Subject_Code)),
                        Subject_name |-> Strip(row.Subject_name), Credits |-> Strip(row.Credits)]
         IN (IF Strip(row.Subject_Code) = <<>> THEN <<>> ELSE <<record>>) \o CsvRecords(Tail(rows))

\* csv.exists is whether CBCS.csv is there; delete_many({}) then insert_many
basket_import(cat, csv) ==
    IF ~csv.exists THEN [cat |-> cat, outcome |-> "no file"]
    ELSE LET records == CsvRecords(csv.rows)
         IN IF records # <<>>
            THEN [cat |-> [i \in 1..Len(records) |-> WithId(i, records[i])], outcome |-> "imported"]
            ELSE [cat |-> cat, outcome |-> "no valid records"]

SubjectForms ==
    {[branch |-> b, basket |-> B("Basket I"), subject_code |-> c, subject_name |-> n, credits |-> S("3")] :
        b \in {S(""), B("All")}, c \in {S(" "), S("cs1 "), S("MA2")}, n \in {S(""), S("Maths")}}

CsvRows ==
    {[Branch |-> B("All"), Basket |-> B("Basket 3"), Subject_Code |-> c, Subject_name |-> S("Maths"),
      Credits |-> S("3")] : c \in {S(" "), S("cs1 "), S("CS1"), S("MA2")}}

CsvFiles ==
    {[exists |-> FALSE, rows |-> <<>>]}
    \cup {[exists |-> TRUE, rows |-> r] : r \in UNION {[1..n -> CsvRows] : n \in 0..MaxCsvRows}}

SubjectIds == 0..(MaxCatalogue + 1)

CatalogueRequests ==
    {[op |-> "basket_add", form |-> f] : f \in SubjectForms}
    \cup {[op |-> "basket_edit", subject_id |-> k, form |-> f] : k \in SubjectIds, f \in SubjectForms}
    \cup {[op |-> "basket_delete", subject_id |-> k] : k \in SubjectIds}
    \cup {[op |-> "basket_import", csv |-> c] : c \in CsvFiles}

CatalogueInit ==
    /\ store = <<>>
    /\ cbcs = <<>>
    /\ req = NoOut
    /\ out = NoOut

\* the catalogue is kept within MaxCatalogue entries by adds
RequestCatalogue ==
    /\ req = NoOut
    /\ req' \in CatalogueRequests
    /\ req'.op = "basket_add" => Len(cbcs) < MaxCatalogue
    /\ out' = NoOut
    /\ UNCHANGED <<store, cbcs>>

Served(r) ==
    /\ cbcs' = r.cat
    /\ out' = [op |-> req.op, outcome |-> r.outcome]
    /\ UNCHANGED <<store, req>>

BasketAdd ==
    /\ req.op = "basket_add"
    /\ out = NoOut
    /\ Served(basket_add(cbcs, req.form))

BasketEdit ==
    /\ req.op = "basket_edit"
    /\ out = NoOut
    /\ Served(basket_edit(cbcs, req.subject_id, req.form))

BasketDelete ==
    /\ req.op = "basket_delete"
    /\ out = NoOut
    /\ Served(basket_delete(cbcs, req.subject_id))

BasketImport ==
    /\ req.op = "basket_import"
    /\ out = NoOut
    /\ Served(basket_import(cbcs, req.csv))

CatalogueNext == RequestCatalogue \/ BasketAdd \/ BasketEdit \/ BasketDelete \/ BasketImport \/ Respond

SpecCatalogue == CatalogueInit /\ [][CatalogueNext]_vars

UniqueCodes(cat) ==
    \A i, j \in 1..Len(cat) : cat[i].Subject_Code = cat[j].Subject_Code => i = j

\* the add or edit being served would create a second entry with its code
WouldDuplicate ==
    \E i \in 1..Len(cbcs) :
        /\ cbcs[i].Subject_Code = SubjectData(req.form).Subject_Code
        /\ req.op = "basket_edit" => cbcs[i].id # req.subject_id

\* C25: after any sequence of basket_add, basket_edit, basket_delete and
\* basket_import from the empty catalogue no two entries have the same
\* subject code; an add or edit that would create a duplicate or lacks
\* branch, subject code or subject name is rejected and leaves the catalogue
\* unchanged.
C25_UniqueSubjectCodes ==
    [][/\ UniqueCodes(cbcs')
       /\ (/\ req.op \in {"basket_add", "basket_edit"}
           /\ out = NoOut /\ out' # NoOut
           /\ req.op = "basket_edit" => req.subject_id # 0
           /\ LacksRequired(SubjectData(req.form)) \/ WouldDuplicate)
          => (cbcs' = cbcs /\ out'.outcome \in {"required", "exists"})]_vars

\* the same statement for the steps that are not a basket_import
C25_UniqueWithoutImport ==
    [][req.op # "basket_import" /\ UniqueCodes(cbcs)
       => /\ UniqueCodes(cbcs')
          /\ (/\ req.op \in {"basket_add", "basket_edit"}
              /\ out = NoOut /\ out' # NoOut
              /\ req.op = "basket_edit" => req.subject_id # 0
              /\ LacksRequired(SubjectData(req.form)) \/ WouldDuplicate)
             => (cbcs' = cbcs /\ out'.outcome \in {"required", "exists"})]_vars

\* the year annotation of a result row: Year in a backlog search, Batch in
\* a batch search
RowYear(row) == IF out.op = "batch" THEN row.Batch ELSE row.Year

\* C27: filter and decode agree: every record returned under a branch
\* filter that resolved to code c is annotated with the branch of code c, and
\* every record returned under a year filter with code yy is annotated with
\* the year "20yy", for registration ids of every length in the store.
C27_FilterDecodeAgree ==
    (FilterApplies /\ out.queried) =>
        /\ \A c \in {"1", "2"} :
              HasBranchCond(out.query, c) =>
                 \A i \in 1..Len(out.result) : out.result[i].Branch = BranchOfCode(c)
        /\ (ValidYear /\ HasYearCond(out.query, LastTwo(FormYear))) =>
              \A i \in 1..Len(out.result) : RowYear(out.result[i]) = <<"2", "0">> \o LastTwo(FormYear)

\* the same for the registration ids of ten or more characters, and the
\* year part for all ids
C27_AgreeOnFullIds ==
    (FilterApplies /\ out.queried) =>
        /\ \A c \in {"1", "2"} :
              HasBranchCond(out.query, c) =>
                 \A i \in 1..Len(out.result) :
                    Len(out.result[i].Reg_No) >= 10 => out.result[i].Branch = BranchOfCode(c)
        /\ (ValidYear /\ HasYearCond(out.query, LastTwo(FormYear))) =>
              \A i \in 1..Len(out.result) : RowYear(out.result[i]) = <<"2", "0">> \o LastTwo(FormYear)

\* the store with the grades of its records replaced by gs
Regrade(st, gs) == [i \in 1..Len(st) |-> [st[i] EXCEPT !.Grade = gs[i]]]

\* C28: basket reconciliation does not depend on grades: a catalogue
\* subject of a basket is completed, with its full credits earned, exactly
\* when the student has a (semester-filtered) record with its code, and
\* the stores that differ from this one only in the Grade fields yield the
\* same basket progress and overall statistics.
C28_GradeIndependent ==
    out.op = "baskettrack" =>
        /\ \A gs \in [1..Len(store) -> {<<"A">>, <<"F">>, <<>>}] :
              baskettrack(Regrade(store, gs), cbcs, req.form) = out
        /\ out.outcome = "ok" =>
              \A n \in DOMAIN out.basket_progress :
                 \A k \in 1..Len(Progress(n).subjects) :
                    LET sub == Progress(n).subjects[k]
                    IN ~sub.is_default_assigned =>
                          /\ sub.completed <=> sub.code \in StudentCodes
                          /\ sub.earned_credits = IF sub.completed THEN sub.credits_numeric ELSE 0

\* a record with the backlog grade "F" counts as a completed catalogue
\* subject with its credits earned
C28_Witness ==
    /\ BasketOk
    /\ \E i \in 1..Len(store) :
          /\ store[i].Grade = <<"F">>
          /\ \E n \in DOMAIN out.basket_progress :
                \E k \in 1..Len(Progress(n).subjects) :
                   LET sub == Progress(n).subjects[k]
                   IN /\ sub.code = store[i].Subject_Code
                      /\ ~sub.is_default_assigned
                      /\ sub.completed /\ sub.earned_credits > 0

\* the reconciliation of the same request without its basket filter
Unfiltered == baskettrack(store, cbcs, [req.form EXCEPT !.basket = <<>>])

SameBasket(a, b) ==
    /\ a.subjects = b.subjects
    /\ a.earned_credits = b.earned_credits
    /\ a.percentage = b.percentage
    /\ a.status = b.status

\* C29: the basket filter only restricts which baskets are populated:
\* reconciling with the basket filter set to a canonical basket gives that
\* basket the same subject list, earned credits, percentage and status as
\* reconciling without a basket filter, also when catalogue entries of the
\* basket use the numeric spelling.
C29_FilterOnlyRestricts ==
    (BasketOk /\ Strip(req.form.basket) \in {all_baskets[i] : i \in 1..Len(all_baskets)}) =>
        SameBasket(Progress(Strip(req.form.basket)), Unfiltered.basket_progress[Strip(req.form.basket)])

\* the same when every catalogue entry of the basket carries the canonical
\* spelling and every student subject is in the catalogue under it
C29_ExactLabelsOnly ==
    (/\ BasketOk
     /\ Strip(req.form.basket) \in {all_baskets[i] : i \in 1..Len(all_baskets)}
     /\ \A i \in 1..Len(cbcs) : cbcs[i].Basket = PyStr(Strip(req.form.basket))
     /\ Unfiltered.overall_stats.default_assigned_subjects = 0) =>
        SameBasket(Progress(Strip(req.form.basket)), Unfiltered.basket_progress[Strip(req.form.basket)])

\* the codes listed as completed in the five reported baskets
ReportedCompleted ==
    UNION {{Progress(n).subjects[k].code :
               k \in {j \in 1..Len(Progress(n).subjects) : Progress(n).subjects[j].completed}} :
           n \in DOMAIN out.basket_progress}

\* C30: without a basket filter every subject code of the student's
\* semester-filtered records is a completed entry of one of the five
\* reported baskets, and the overall completed-subject count is at least
\* the number of distinct student subject codes, whatever labels the
\* catalogue uses.
C30_CreditConservation ==
    (BasketOk /\ Strip(req.form.basket) \in {<<>>, B("All")}) =>
        /\ StudentCodes \subseteq ReportedCompleted
        /\ out.overall_stats.completed_subjects >= Cardinality(StudentCodes)

\* the same over the catalogues whose labels all normalize to one of the
\* five baskets
C30_ConservedUnderKnownLabels ==
    (/\ BasketOk /\ Strip(req.form.basket) \in {<<>>, B("All")}
     /\ \A i \in 1..Len(cbcs) : CanonicalLabel(cbcs[i].Basket) \in {all_baskets[k] : k \in 1..Len(all_baskets)}) =>
        /\ StudentCodes \subseteq ReportedCompleted
        /\ out.overall_stats.completed_subjects >= Cardinality(StudentCodes)

====
